---- MODULE Spec2Model ----
(***************************************************************************)
(* Model of scripts/tokens/app.mjs: the token/style -> CSS generator.      *)
(*                                                                         *)
(* JavaScript strings are modelled as sequences of one-character strings,  *)
(* so that replace / split / toLowerCase / join are computed as the code   *)
(* computes them.  JavaScript objects whose key order matters are modelled *)
(* as sequences of <<key, value>> entries in insertion order; Keys(o)      *)
(* gives the enumeration order of for-in / Object.entries.                 *)
(***************************************************************************)
EXTENDS Integers, Sequences, FiniteSets, TLC

----------------------------------------------------------------------------
(* Characters, in ascending UTF-16 code unit order (the order of the JS    *)
(* relational operators on strings).                                       *)
CHARS ==
  << "\n", " ", "\"", "#", "(", ")", "*", ",", "-", ".", "/",
     "0", "1", "2", "3", "4", "5", "6", "7", "8", "9", ":", ";", "@",
     "A", "B", "C", "D", "E", "F", "G", "H", "I", "J", "K", "L", "M",
     "N", "O", "P", "Q", "R", "S", "T", "U", "V", "W", "X", "Y", "Z", "_",
     "a", "b", "c", "d", "e", "f", "g", "h", "i", "j", "k", "l", "m",
     "n", "o", "p", "q", "r", "s", "t", "u", "v", "w", "x", "y", "z",
     "{", "}" >>

UPPER ==
  << "A", "B", "C", "D", "E", "F", "G", "H", "I", "J", "K", "L", "M",
     "N", "O", "P", "Q", "R", "S", "T", "U", "V", "W", "X", "Y", "Z" >>

LOWER ==
  << "a", "b", "c", "d", "e", "f", "g", "h", "i", "j", "k", "l", "m",
     "n", "o", "p", "q", "r", "s", "t", "u", "v", "w", "x", "y", "z" >>

DIGITS == << "0", "1", "2", "3", "4", "5", "6", "7", "8", "9" >>

Range(s) == { s[i] : i \in DOMAIN s }

Min(S) == CHOOSE x \in S : \A y \in S : x <= y

DigitSet == Range(DIGITS)

UpperSet == Range(UPPER)

LowerSet == Range(LOWER)

AlnumSet == DigitSet \cup UpperSet \cup LowerSet

IsDigit(c) == c \in DigitSet

IsUpper(c) == c \in UpperSet

IsLower(c) == c \in LowerSet

IsAlnum(c) == c \in AlnumSet

LowerOf == [c \in UpperSet |-> LOWER[CHOOSE i \in DOMAIN UPPER : UPPER[i] = c]]

UpperOf == [c \in LowerSet |-> UPPER[CHOOSE i \in DOMAIN LOWER : LOWER[i] = c]]

CodeOf == [c \in Range(CHARS) |-> CHOOSE i \in DOMAIN CHARS : CHARS[i] = c]

DigitVal(c) == CodeOf[c] - CodeOf["0"]

ToLowerChar(c) == IF IsUpper(c) THEN LowerOf[c] ELSE c

ToUpperChar(c) == IF IsLower(c) THEN UpperOf[c] ELSE c

\* String.prototype.toLowerCase
toLowerCase(s) == [i \in DOMAIN s |-> ToLowerChar(s[i])]

RECURSIVE Cat(_)
\* concatenation of a sequence of strings (a template literal)
Cat(ss) == IF ss = <<>> THEN <<>> ELSE Head(ss) \o Cat(Tail(ss))

RECURSIVE Join(_, _)
\* Array.prototype.join
Join(ss, sep) ==
  IF ss = <<>> THEN <<>>
  ELSE IF Len(ss) = 1 THEN ss[1]
  ELSE ss[1] \o sep \o Join(Tail(ss), sep)

RECURSIVE IndexFrom(_, _, _)
\* the first occurrence of pat in s at or after position i; 0 when there is none
IndexFrom(s, pat, i) ==
  IF i + Len(pat) - 1 > Len(s) THEN 0
  ELSE IF SubSeq(s, i, i + Len(pat) - 1) = pat THEN i
  ELSE IndexFrom(s, pat, i + 1)

\* String.prototype.indexOf, 1-based; 0 when pat does not occur
IndexOf(s, pat) == IndexFrom(s, pat, 1)

\* String.prototype.includes
Includes(s, pat) == IndexOf(s, pat) # 0

\* String.prototype.replace with a string pattern: the first occurrence only
ReplaceFirst(s, pat, rep) ==
  LET i == IndexOf(s, pat)
  IN  IF i = 0 THEN s
      ELSE SubSeq(s, 1, i - 1) \o rep \o SubSeq(s, i + Len(pat), Len(s))

\* String.prototype.startsWith
StartsWith(s, pat) == Len(pat) <= Len(s) /\ SubSeq(s, 1, Len(pat)) = pat

RECURSIVE Trim(_)
\* String.prototype.trim (spaces and newlines)
Trim(s) ==
  IF s = <<>> THEN s
  ELSE IF s[1] \in {" ", "\n"} THEN Trim(Tail(s))
  ELSE IF s[Len(s)] \in {" ", "\n"} THEN Trim(SubSeq(s, 1, Len(s) - 1))
  ELSE s

RECURSIVE NatToStr(_)
\* Number.prototype.toString of a non-negative integer
NatToStr(n) ==
  IF n < 10 THEN << DIGITS[n + 1] >>
  ELSE NatToStr(n \div 10) \o << DIGITS[(n % 10) + 1] >>

RECURSIVE StrToNat(_)
\* the value of a string of decimal digits
StrToNat(s) ==
  IF s = <<>> THEN 0
  ELSE 10 * StrToNat(SubSeq(s, 1, Len(s) - 1)) + DigitVal(s[Len(s)])

AllDigits(s) == s # <<>> /\ \A i \in DOMAIN s : IsDigit(s[i])

----------------------------------------------------------------------------
(* JavaScript objects as insertion-ordered entry lists.                    *)

Has(o, k) == \E i \in DOMAIN o : o[i][1] = k

Get(o, k) == o[CHOOSE i \in DOMAIN o : o[i][1] = k][2]

\* o[k] = v : an existing key keeps its position, a new key goes last
Put(o, k, v) ==
  IF Has(o, k)
  THEN [i \in DOMAIN o |-> IF o[i][1] = k THEN <<k, v>> ELSE o[i]]
  ELSE Append(o, <<k, v>>)

InsertionKeys(o) == [i \in DOMAIN o |-> o[i][1]]

\* a canonical array index: such keys are enumerated first, ascending
IsArrayIndex(k) == AllDigits(k) /\ (Len(k) = 1 \/ k[1] # "0")

RECURSIVE InsertNum(_, _)
InsertNum(sorted, k) ==
  IF sorted = <<>> THEN <<k>>
  ELSE IF StrToNat(k) < StrToNat(sorted[1]) THEN <<k>> \o sorted
  ELSE <<sorted[1]>> \o InsertNum(Tail(sorted), k)

RECURSIVE SortNum(_)
SortNum(ks) == IF ks = <<>> THEN <<>> ELSE InsertNum(SortNum(Tail(ks)), ks[1])

\* Enumeration order of for-in / Object.keys / Object.entries:
\* array-index keys in ascending numeric order, then the others in insertion order.
Keys(o) ==
  LET ks == InsertionKeys(o)
  IN  SortNum(SelectSeq(ks, IsArrayIndex)) \o SelectSeq(ks, LAMBDA k : ~IsArrayIndex(k))

----------------------------------------------------------------------------
(* Module-level configuration.                                             *)

CONVERT_TO_REM == TRUE

NAMESPACES == << "com.figma.wds", "org.wds" >>

TOKEN_PREFIX == << "w", "d", "s", "-" >>

\* imported from ./fromFigma.mjs; the marker that precedes a collection name
\* in the keys of the token document
KEY_PREFIX_COLLECTION == << "@" >>

\* A JSON value of the token document: a string, or a number (s is then its
\* Number.prototype.toString text).
Str(s) == [isString |-> TRUE, s |-> s]

Num(s) == [isString |-> FALSE, s |-> s]

\* optional fields: None when the key is absent, Some(v) when it is present
None == << >>

Some(v) == << v >>

----------------------------------------------------------------------------
(* Value Converter                                                         *)

\* value.toString().match(/^-?\d+(\.\d+)?$/)
valueIsDigits(s) ==
  LET u   == IF s # <<>> /\ s[1] = "-" THEN Tail(s) ELSE s
      dot == IndexOf(u, << "." >>)
  IN  IF dot = 0 THEN AllDigits(u)
      ELSE AllDigits(SubSeq(u, 1, dot - 1)) /\ AllDigits(SubSeq(u, dot + 1, Len(u)))

\* parseInt(value) of a value that matches valueIsDigits: sign and integer part
parseInt(s) ==
  LET neg == s[1] = "-"
      u   == IF neg THEN Tail(s) ELSE s
      dot == IndexOf(u, << "." >>)
      ip  == StrToNat(IF dot = 0 THEN u ELSE SubSeq(u, 1, dot - 1))
  IN  IF neg THEN 0 - ip ELSE ip

RECURSIVE StripTrailingZeros(_)
StripTrailingZeros(s) ==
  IF s # <<>> /\ s[Len(s)] = "0" THEN StripTrailingZeros(SubSeq(s, 1, Len(s) - 1)) ELSE s

\* Number.prototype.toString of r / 10000, r an integer
FormatTenThousandths(r) ==
  LET a    == IF r < 0 THEN 0 - r ELSE r
      ip   == NatToStr(a \div 10000)
      f    == NatToStr(a % 10000)
      pad  == [i \in 1..(4 - Len(f)) |-> "0"] \o f
      frac == StripTrailingZeros(pad)
  IN  (IF r < 0 THEN << "-" >> ELSE << >>)
      \o ip
      \o (IF frac = <<>> THEN << >> ELSE << "." >> \o frac)

RECURSIVE Pow10(_)
Pow10(k) == IF k = 0 THEN 1 ELSE 10 * Pow10(k - 1)

\* Math.round(value * 10000) / 10000 as text, in exact decimal arithmetic;
\* text that is no decimal literal gives NaN
RoundRatio(s) ==
  IF ~valueIsDigits(s) THEN << "N", "a", "N" >>
  ELSE
    LET neg == s[1] = "-"
        u   == IF neg THEN Tail(s) ELSE s
        dot == IndexOf(u, << "." >>)
        ip  == IF dot = 0 THEN u ELSE SubSeq(u, 1, dot - 1)
        fp  == IF dot = 0 THEN << >> ELSE SubSeq(u, dot + 1, Len(u))
        den == Pow10(Len(fp))
        mag == (StrToNat(ip) * den + StrToNat(fp)) * 10000
        num == IF neg THEN 0 - mag ELSE mag
    IN  FormatTenThousandths((2 * num + den) \div (2 * den))

\* value.replace(definitionsKey, prefix).replace(/[. ]/g, "-")
\*      .replace(/^\{/, "").replace(/\}$/, "")
AliasName(s, definitionsKey, prefix) ==
  LET a == ReplaceFirst(s, definitionsKey, prefix)
      b == [i \in DOMAIN a |-> IF a[i] \in {".", " "} THEN "-" ELSE a[i]]
      c == IF b # <<>> /\ b[1] = "{" THEN Tail(b) ELSE b
  IN  IF c # <<>> /\ c[Len(c)] = "}" THEN SubSeq(c, 1, Len(c) - 1) ELSE c

valueToCSS(property, value, definitionsKey, convertPixelToRem, prefix) ==
  LET s       == value.s
      isRatio == Includes(property, << "r", "a", "t", "i", "o", "-" >>)
      isNumeric ==
        /\ valueIsDigits(s)
        /\ ~Includes(property, << "w", "e", "i", "g", "h", "t" >>)
        /\ ~isRatio
  IN  IF s # <<>> /\ s[1] = "{"
        THEN Str(Cat(<< << "v", "a", "r", "(", "-", "-" >>,
                        AliasName(s, definitionsKey, prefix),
                        << ")" >> >>))
      ELSE IF isNumeric
        THEN IF convertPixelToRem
               THEN Str(FormatTenThousandths(parseInt(s) * 625) \o << "r", "e", "m" >>)
               ELSE Str(s \o << "p", "x" >>)
      ELSE IF isRatio
        THEN Num(RoundRatio(s))
      ELSE IF Includes(property, << "f", "a", "m", "i", "l", "y", "-", "m", "o", "n", "o" >>)
        THEN Str(Cat(<< << "\"" >>, s, << "\"", ",", " " >>,
                        << "m", "o", "n", "o", "s", "p", "a", "c", "e" >> >>))
      ELSE IF Includes(property, << "f", "a", "m", "i", "l", "y", "-", "s", "a", "n", "s" >>)
        THEN Str(Cat(<< << "\"" >>, s, << "\"", ",", " " >>,
                        << "s", "a", "n", "s", "-", "s", "e", "r", "i", "f" >> >>))
      ELSE IF Includes(property, << "f", "a", "m", "i", "l", "y", "-", "s", "e", "r", "i", "f" >>)
        THEN Str(Cat(<< << "\"" >>, s, << "\"", ",", " ", "s", "e", "r", "i", "f" >> >>))
      ELSE value

----------------------------------------------------------------------------
(* Tree Traverser                                                          *)

\* for (const namespace of NAMESPACES) if (extensions[namespace]) return it
\* extensions is a function from namespace names to extension data
getNamespaceData(extensions) ==
  LET hit == { i \in DOMAIN NAMESPACES : NAMESPACES[i] \in DOMAIN extensions }
  IN  IF hit = {} THEN None ELSE Some(extensions[NAMESPACES[Min(hit)]])

\* variant: the seeded prefix segment is left out of the join
propertyOfWithoutPrefix(keys) == << "-", "-" >> \o Join(Tail(keys), << "-" >>)

\* variant: the last segment, the leaf key, is left out of the join
propertyOfWithoutLeaf(keys) == << "-", "-" >> \o Join(SubSeq(keys, 1, Len(keys) - 1), << "-" >>)

\* `--${keys.join("-")}`
propertyOf(keys) == << "-", "-" >> \o Join(keys, << "-" >>)

RECURSIVE SplitFrom(_, _)
\* the pieces of s between characters that are not alphanumeric, scanning from i
SplitFrom(s, i) ==
  IF i > Len(s) THEN << s >>
  ELSE IF IsAlnum(s[i]) THEN SplitFrom(s, i + 1)
  ELSE << SubSeq(s, 1, i - 1) >> \o SplitFrom(SubSeq(s, i + 1, Len(s)), 1)

\* key.split(/[^\dA-Za-z]/)
SplitNonAlnum(s) == SplitFrom(s, 1)

\* `${k.charAt(0).toUpperCase()}${k.slice(1)}`
Capitalize(k) == IF k = <<>> THEN k ELSE << ToUpperChar(k[1]) >> \o Tail(k)

\* key.split(...).map(capitalize).join("")
CamelKey(key) ==
  LET parts == SplitNonAlnum(key)
  IN  Cat([j \in DOMAIN parts |-> Capitalize(parts[j])])

propertyNameOf(keys) ==
  LET full == Cat([i \in DOMAIN keys |-> CamelKey(keys[i])])
  IN  IF full = <<>> THEN full ELSE << ToLowerChar(full[1]) >> \o Tail(full)

RECURSIVE ApplyReplacements(_, _, _)
ApplyReplacements(s, replacements, ks) ==
  IF ks = <<>> THEN s
  ELSE ApplyReplacements(ReplaceFirst(s, ks[1], Get(replacements, ks[1])),
                         replacements, Tail(ks))

\* the closure valueWithReplacements of traverse
valueWithReplacements(value, replacements) ==
  IF ~value.isString THEN value
  ELSE Str(toLowerCase(ApplyReplacements(value.s, replacements, Keys(replacements))))

\* variant: the list of the mode is replaced, not extended
PushDefinitionOverwriting(definitions, mode, def) == Put(definitions, mode, << def >>)

\* definitions[mode] = definitions[mode] || []; definitions[mode].push(def)
PushDefinition(definitions, mode, def) ==
  Put(definitions, mode,
      Append(IF Has(definitions, mode) THEN Get(definitions, mode) ELSE << >>, def))

DEFAULT_MODE == << "d", "e", "f", "a", "u", "l", "t" >>

\* variant: the inherited type wins over the declared one
typeOfInheritedFirst(object, currentType) == IF currentType # "" THEN currentType ELSE object.type

\* const type = object.$type || currentType
typeOf(object, currentType) == IF object.type # "" THEN object.type ELSE currentType

\* the record pushed at lines 357-372 and 379-394
FlatDefinition(keys, figmaId, description, value, type) ==
  [ property     |-> propertyOf(keys),
    propertyName |-> propertyNameOf(keys),
    figmaId      |-> figmaId,
    description  |-> description,
    value        |-> value,
    type         |-> type ]

\* the raw value a leaf passes to valueToCSS for a mode (line 365)
ModeValue(modes, mode) == Get(modes, mode)

\* the prefix the mode-less branch passes to valueToCSS (line 390)
DefaultBranchPrefix(prefix) == << >>

RECURSIVE PushModes(_, _, _, _, _, _, _)
\* for (let mode in extensionData.modes) { ... push ... }
\* ctx: the arguments traverse passes down unchanged
PushModes(definitions, modeKeys, object, extensionData, type, keys, ctx) ==
  IF modeKeys = <<>> THEN definitions
  ELSE
    LET mode == modeKeys[1]
        def  == FlatDefinition(
                  keys, extensionData.figmaId, object.description,
                  valueWithReplacements(
                    valueToCSS(propertyOf(keys), ModeValue(extensionData.modes[1], mode),
                               ctx.definitionsKey, ctx.convertPixelToRem, ctx.prefix),
                    ctx.replacements),
                  type)
    IN  PushModes(PushDefinition(definitions, mode, def), Tail(modeKeys),
                  object, extensionData, type, keys, ctx)

RECURSIVE traverse(_, _, _, _, _, _, _, _)
RECURSIVE TraverseEntries(_, _, _, _, _, _)

\* Object.entries(object).forEach(([key, value]) => { if (key.charAt(0) !== "$") traverse(...) })
TraverseEntries(definitions, entryKeys, object, type, keys, ctx) ==
  IF entryKeys = <<>> THEN definitions
  ELSE
    LET key  == entryKeys[1]
        next == IF key # <<>> /\ key[1] = "$"
                  THEN definitions
                  ELSE traverse(definitions, Get(object.children, key), ctx.replacements,
                                ctx.definitionsKey, ctx.prefix, ctx.convertPixelToRem,
                                type, Append(keys, key))
    IN  TraverseEntries(next, Tail(entryKeys), object, type, keys, ctx)

\* object: [hasValue, value, type, description, extensions, children]
\*   hasValue    "$value" in object
\*   type        $type, "" when absent
\*   extensions  None, or Some(function from namespace to [figmaId, modes])
\*   children    the entries of a container
\* The result is the definitions object after the call.
traverse(definitions, object, replacements, definitionsKey, prefix, convertPixelToRem, currentType, keys) ==
  LET ctx  == [ replacements |-> replacements, definitionsKey |-> definitionsKey,
                prefix |-> prefix, convertPixelToRem |-> convertPixelToRem ]
      type == typeOf(object, currentType)
      extensionData ==
        IF Len(object.extensions) = 1 THEN getNamespaceData(object.extensions[1]) ELSE None
  IN  IF object.hasValue
        THEN IF Len(extensionData) = 1 /\ Len(extensionData[1].modes) = 1
               THEN PushModes(definitions, Keys(extensionData[1].modes[1]), object,
                              extensionData[1], type, keys, ctx)
               ELSE PushDefinition(
                      definitions, DEFAULT_MODE,
                      FlatDefinition(
                        keys,
                        IF Len(extensionData) = 1 THEN extensionData[1].figmaId ELSE "UNDEFINED",
                        object.description,
                        valueWithReplacements(
                          valueToCSS(propertyOf(keys), object.value, definitionsKey,
                                     convertPixelToRem, DefaultBranchPrefix(prefix)),
                          replacements),
                        type))
        ELSE TraverseEntries(definitions, Keys(object.children), object, type, keys, ctx)

----------------------------------------------------------------------------
(* Collection Processor                                                    *)

\* settings: [prefix, convertPixelToRem, replacements, colorSchemes,
\*            colorSchemesDark, colorSchemeLightRemove, colorSchemeDarkRemove];
\* the optional ones are None or Some(v)
SettingsReplacements(settings) ==
  IF Len(settings.replacements) = 1 THEN settings.replacements[1] ELSE << >>

SettingsConvertPixelToRem(settings) ==
  IF Len(settings.convertPixelToRem) = 1 THEN settings.convertPixelToRem[1] ELSE CONVERT_TO_REM

\* `${TOKEN_PREFIX}${prefix}`
fullPrefixOf(settings) == TOKEN_PREFIX \o settings.prefix

\* the value of processed.definitions after processCollection
processCollection(tokenData, settings, definitionsKey) ==
  LET fullPrefix == fullPrefixOf(settings)
  IN  traverse(<< >>, Get(tokenData, definitionsKey), SettingsReplacements(settings),
               definitionsKey, fullPrefix, SettingsConvertPixelToRem(settings), "",
               IF fullPrefix # <<>> THEN << fullPrefix >> ELSE << >>)

\* `${KEY_PREFIX_COLLECTION}${key}`
definitionsKeyOf(key) == KEY_PREFIX_COLLECTION \o key

DefaultSettings(normalizedKey) ==
  [ prefix                 |-> [i \in DOMAIN normalizedKey |->
                                  IF normalizedKey[i] = "_" THEN "-" ELSE normalizedKey[i]],
    convertPixelToRem      |-> Some(TRUE),
    replacements           |-> None,
    colorSchemes           |-> None,
    colorSchemesDark       |-> None,
    colorSchemeLightRemove |-> None,
    colorSchemeDarkRemove  |-> None ]

\* variant: a collection that is configured gets the fallback settings too
RECURSIVE EnsureKeysOverwriting(_, _)
EnsureKeysOverwriting(collectionData, docKeys) ==
  IF docKeys = <<>> THEN collectionData
  ELSE
    LET definitionsKey == docKeys[1]
        normalizedKey  == SubSeq(definitionsKey, Len(KEY_PREFIX_COLLECTION) + 1,
                                 Len(definitionsKey))
        next ==
          IF ~StartsWith(definitionsKey, KEY_PREFIX_COLLECTION) THEN collectionData
          ELSE IF normalizedKey = <<>> THEN collectionData
          ELSE Put(collectionData, normalizedKey,
                   [settings |-> DefaultSettings(normalizedKey), definitions |-> None])
    IN  EnsureKeysOverwriting(next, Tail(docKeys))

RECURSIVE EnsureKeys(_, _)
EnsureKeys(collectionData, docKeys) ==
  IF docKeys = <<>> THEN collectionData
  ELSE
    LET definitionsKey == docKeys[1]
        normalizedKey  == SubSeq(definitionsKey, Len(KEY_PREFIX_COLLECTION) + 1,
                                 Len(definitionsKey))
        next ==
          IF ~StartsWith(definitionsKey, KEY_PREFIX_COLLECTION) THEN collectionData
          ELSE IF normalizedKey = <<>> THEN collectionData
          ELSE IF Has(collectionData, normalizedKey) THEN collectionData
          ELSE Put(collectionData, normalizedKey,
                   [settings |-> DefaultSettings(normalizedKey), definitions |-> None])
    IN  EnsureKeys(next, Tail(docKeys))

\* the value of COLLECTION_DATA after ensureCollectionSettingsExist(data)
ensureCollectionSettingsExist(collectionData, tokenData) ==
  EnsureKeys(collectionData, Keys(tokenData))

----------------------------------------------------------------------------
(* CSS Emitter                                                             *)

RECURSIVE StrGreater(_, _)
\* a > b on strings: lexicographic in UTF-16 code units
StrGreater(a, b) ==
  IF a = <<>> THEN FALSE
  ELSE IF b = <<>> THEN TRUE
  ELSE IF a[1] # b[1] THEN CodeOf[a[1]] > CodeOf[b[1]]
  ELSE StrGreater(Tail(a), Tail(b))

RemoveAt(s, i) == SubSeq(s, 1, i - 1) \o SubSeq(s, i + 1, Len(s))

RECURSIVE Perms(_)
Perms(s) ==
  IF s = <<>> THEN { << >> }
  ELSE UNION { { << s[i] >> \o p : p \in Perms(RemoveAt(s, i)) } : i \in DOMAIN s }

\* The arrays lines.sort((a, b) => (a.property > b.property ? 1 : -1)) can leave:
\* ascending by property; the comparator never answers 0, so the order of
\* elements with equal property is left to the engine.
SortedByProperty(lines) ==
  { p \in Perms(lines) :
      \A i \in 1..(Len(p) - 1) : ~StrGreater(p[i].property, p[i + 1].property) }

\* lines.map((l) => `${indent}${l.property}: ${l.value}`).join(";\n") + ";"
\* of an array the sort has already ordered
drawCSSPropLines(lines, indent) ==
  Join([i \in DOMAIN lines |->
          Cat(<< indent, lines[i].property, << ":", " " >>, lines[i].value.s >>)],
       << ";", "\n" >>) \o << ";" >>

\* definitions[scheme], with the default parameter value of drawCSSPropLines
ModeLines(definitions, mode) ==
  IF Has(definitions, mode) THEN Get(definitions, mode) ELSE << >>

\* variant: the scheme name is kept whole
StripSchemeNothing(scheme, remove) == scheme

\* scheme.replace(settings.colorSchemeLightRemove, "")
StripScheme(scheme, remove) ==
  ReplaceFirst(scheme, IF Len(remove) = 1 THEN remove[1] ELSE << "u", "n", "d", "e", "f", "i", "n", "e", "d" >>, << >>)

\* the selector line of an additional light or dark scheme (lines 177, 192)
SchemeSelector(key, scheme, remove) ==
  Cat(<< << "." >>, TOKEN_PREFIX, << "s", "c", "h", "e", "m", "e", "-" >>, key, << "-" >>, StripScheme(scheme, remove), << " ", "{" >> >>)

\* variant: the selector leaves out the collection key
ThemeSelectorWithoutKey(key, mode) ==
  Cat(<< << "." >>, TOKEN_PREFIX, << "t", "h", "e", "m", "e", "-" >>, mode, << " ", "{" >> >>)

\* the selector line of an additional mode (line 209)
ThemeSelector(key, mode) ==
  Cat(<< << "." >>, TOKEN_PREFIX, << "t", "h", "e", "m", "e", "-" >>, key, << "-" >>, mode, << " ", "{" >> >>)

RECURSIVE LightBlocks(_, _, _, _, _)
\* settings.colorSchemes.forEach((scheme, i) => ...), from index i on
LightBlocks(definitions, settings, key, schemes, i) ==
  IF i > Len(schemes) THEN << >>
  ELSE
    LET scheme == schemes[i]
        head ==
          IF i = 1
            THEN << Cat(<< << "/", "*", " " >>, key, << ":", " " >>, scheme, << " ", "(", "d", "e", "f", "a", "u", "l", "t", ")", " ", "*", "/" >> >>), << ":", "r", "o", "o", "t", " ", "{" >> >>
            ELSE << Cat(<< << "/", "*", " " >>, key, << ":", " " >>, scheme, << " ", "*", "/" >> >>),
                    SchemeSelector(key, scheme, settings.colorSchemeLightRemove) >>
    IN  head
        \o << drawCSSPropLines(ModeLines(definitions, scheme), << " ", " " >>), << "}" >> >>
        \o LightBlocks(definitions, settings, key, schemes, i + 1)

RECURSIVE DarkBlocksLightRemove(_, _, _, _, _)
\* variant: the class names of the dark blocks are stripped of the light strip string
DarkBlocksLightRemove(definitions, settings, key, schemes, i) ==
  IF i > Len(schemes) THEN << >>
  ELSE
    LET scheme == schemes[i]
        head ==
          IF i = 1
            THEN << Cat(<< << " ", " ", "/", "*", " " >>, key, << ":", " " >>, scheme, << " ", "(", "d", "e", "f", "a", "u", "l", "t", ")", " ", "*", "/" >> >>), << " ", " ", ":", "r", "o", "o", "t", " ", "{" >> >>
            ELSE << Cat(<< << " ", " ", "/", "*", " " >>, key, << ":", " " >>, scheme, << " ", "*", "/" >> >>),
                    << " ", " " >> \o SchemeSelector(key, scheme, settings.colorSchemeLightRemove) >>
    IN  head
        \o << drawCSSPropLines(ModeLines(definitions, scheme), << " ", " ", " ", " " >>), << " ", " ", "}" >> >>
        \o DarkBlocksLightRemove(definitions, settings, key, schemes, i + 1)

RECURSIVE DarkBlocks(_, _, _, _, _)
\* settings.colorSchemesDark.forEach((scheme, i) => ...), from index i on
DarkBlocks(definitions, settings, key, schemes, i) ==
  IF i > Len(schemes) THEN << >>
  ELSE
    LET scheme == schemes[i]
        head ==
          IF i = 1
            THEN << Cat(<< << " ", " ", "/", "*", " " >>, key, << ":", " " >>, scheme, << " ", "(", "d", "e", "f", "a", "u", "l", "t", ")", " ", "*", "/" >> >>), << " ", " ", ":", "r", "o", "o", "t", " ", "{" >> >>
            ELSE << Cat(<< << " ", " ", "/", "*", " " >>, key, << ":", " " >>, scheme, << " ", "*", "/" >> >>),
                    << " ", " " >> \o SchemeSelector(key, scheme, settings.colorSchemeDarkRemove) >>
    IN  head
        \o << drawCSSPropLines(ModeLines(definitions, scheme), << " ", " ", " ", " " >>), << " ", " ", "}" >> >>
        \o DarkBlocks(definitions, settings, key, schemes, i + 1)

RECURSIVE ModeBlocks(_, _, _, _)
\* for (let k in definitions) { ... }, over the modes still to visit
ModeBlocks(definitions, key, modeKeys, first) ==
  IF modeKeys = <<>> THEN << >>
  ELSE
    LET k == modeKeys[1]
        head ==
          IF ~first
            THEN << Cat(<< << "/", "*", " " >>, key, << ":", " " >>, k, << " ", "(", "d", "e", "f", "a", "u", "l", "t", ")", " ", "*", "/" >> >>), << ":", "r", "o", "o", "t", " ", "{" >> >>
            ELSE << Cat(<< << "/", "*", " " >>, key, << ":", " " >>, k, << " ", "*", "/" >> >>), ThemeSelector(key, k) >>
    IN  head
        \o << drawCSSPropLines(ModeLines(definitions, k), << " ", " " >>), << "}" >> >>
        \o ModeBlocks(definitions, key, Tail(modeKeys), TRUE)

\* the modes whose arrays fileStringCSSFromProcessedObject hands to drawCSSPropLines
DrawnModes(definitions, settings) ==
  IF Len(settings.colorSchemes) = 1
    THEN Range(settings.colorSchemes[1])
         \cup (IF Len(settings.colorSchemesDark) = 1
                 THEN Range(settings.colorSchemesDark[1]) ELSE {})
    ELSE Range(InsertionKeys(definitions))

RECURSIVE SortOutcomes(_, _)
\* the definitions objects the in-place sorts of one emission can leave
SortOutcomes(definitions, drawn) ==
  IF definitions = <<>> THEN { << >> }
  ELSE
    LET mode == definitions[1][1]
        alts == IF mode \in drawn
                  THEN SortedByProperty(definitions[1][2])
                  ELSE { definitions[1][2] }
    IN  { << << mode, a >> >> \o rest :
            a \in alts, rest \in SortOutcomes(Tail(definitions), drawn) }

\* the lines of one collection, given its definitions as the sorts left them
fileStringCSSFromProcessedObject(definitions, settings, key) ==
  IF Len(settings.colorSchemes) = 1
    THEN LightBlocks(definitions, settings, key, settings.colorSchemes[1], 1)
         \o (IF Len(settings.colorSchemesDark) = 1
               THEN << << "@", "m", "e", "d", "i", "a", " ", "(", "p", "r", "e", "f", "e", "r", "s", "-", "c", "o", "l", "o", "r", "-", "s", "c", "h", "e", "m", "e", ":", " ", "d", "a", "r", "k", ")", " ", "{" >> >>
                    \o DarkBlocks(definitions, settings, key, settings.colorSchemesDark[1], 1)
                    \o << << "}" >> >>
               ELSE << >>)
    ELSE ModeBlocks(definitions, key, Keys(definitions), FALSE)

FILE_HEADER ==
  << << "/", "*" >>,
     << " ", "*", " ", "T", "h", "i", "s", " ", "f", "i", "l", "e", " ", "i", "s", " ", "a", "u", "t", "o", "m", "a", "t", "i", "c", "a", "l", "l", "y", " ", "g", "e", "n", "e", "r", "a", "t", "e", "d", " ", "b", "y", " ", "s", "c", "r", "i", "p", "t", "s", "/", "t", "o", "k", "e", "n", "s", "/", "a", "p", "p", ".", "m", "j", "s", "!" >>,
     << " ", "*", "/" >> >>

----------------------------------------------------------------------------
(* Variable Lookup Table (initialize, lines 109-118)                       *)

RECURSIVE ReduceLookups(_, _)
\* .reduce((into, item) => { into[item.figmaId] = item; return into }, {})
\* the table is an object keyed by stable identifier
ReduceLookups(into, items) ==
  IF items = <<>> THEN into
  ELSE ReduceLookups(Put(into, items[1].figmaId, items[1]), Tail(items))

\* Object.values(processed[key].definitions).flatMap((definition) => definition)
FlattenModes(definitions) ==
  Cat([i \in DOMAIN Keys(definitions) |-> Get(definitions, Keys(definitions)[i])])

\* collectionData: the entries of COLLECTION_DATA; keys: the keys of processed
buildVariableLookups(collectionData, keys) ==
  ReduceLookups(<< >>,
    Cat([i \in DOMAIN keys |-> FlattenModes(Get(collectionData, keys[i]).definitions[1])]))

----------------------------------------------------------------------------
(* Style-JSON Processor                                                    *)

\* the weightMap literal of parseFontStyle, in source order
weightMap ==
  << << << "t", "h", "i", "n" >>, << "1", "0", "0" >> >>,
     << << "e", "x", "t", "r", "a", " ", "l", "i", "g", "h", "t" >>, << "2", "0", "0" >> >>,
     << << "u", "l", "t", "r", "a", "l", "i", "g", "h", "t" >>, << "2", "0", "0" >> >>,
     << << "l", "i", "g", "h", "t" >>, << "3", "0", "0" >> >>,
     << << "b", "o", "o", "k" >>, << "3", "5", "0" >> >>,
     << << "n", "o", "r", "m", "a", "l" >>, << "4", "0", "0" >> >>,
     << << "r", "e", "g", "u", "l", "a", "r" >>, << "4", "0", "0" >> >>,
     << << "r", "o", "m", "a", "n" >>, << "4", "0", "0" >> >>,
     << << "m", "e", "d", "i", "u", "m" >>, << "5", "0", "0" >> >>,
     << << "s", "e", "m", "i", " ", "b", "o", "l", "d" >>, << "6", "0", "0" >> >>,
     << << "d", "e", "m", "i", " ", "b", "o", "l", "d" >>, << "6", "0", "0" >> >>,
     << << "b", "o", "l", "d" >>, << "7", "0", "0" >> >>,
     << << "e", "x", "t", "r", "a", " ", "b", "o", "l", "d" >>, << "8", "0", "0" >> >>,
     << << "b", "l", "a", "c", "k" >>, << "9", "0", "0" >> >>,
     << << "h", "e", "a", "v", "y" >>, << "9", "0", "0" >> >> >>

RECURSIVE CollapseRuns(_, _, _)
\* s.replace(/c+/g, r) for a character c
CollapseRuns(s, c, r) ==
  IF s = <<>> THEN s
  ELSE IF s[1] # c THEN << s[1] >> \o CollapseRuns(Tail(s), c, r)
  ELSE IF Len(s) > 1 /\ s[2] = c THEN CollapseRuns(Tail(s), c, r)
  ELSE r \o CollapseRuns(Tail(s), c, r)

\* Object.keys(weightMap).find((key) => normalizedKey.includes(key))
fuzzyKeyOf(normalizedKey) ==
  LET hit == { i \in DOMAIN weightMap : Includes(normalizedKey, weightMap[i][1]) }
  IN  IF hit = {} THEN None ELSE Some(weightMap[Min(hit)][1])

\* normalizedKey.match(/\d{3}/)?.[0]
ThreeDigits(s) ==
  LET hit == { i \in 1..(Len(s) - 2) : AllDigits(SubSeq(s, i, i + 2)) }
  IN  IF hit = {} THEN None ELSE Some(SubSeq(s, Min(hit), Min(hit) + 2))

\* lower.replace("italic", "").replace(/ +/g, " ").trim(), then
\* weightKey.replace(/-+/g, " ").trim()
normalizedKeyOf(styleName) ==
  LET lower     == toLowerCase(styleName)
      weightKey == Trim(CollapseRuns(ReplaceFirst(lower, << "i", "t", "a", "l", "i", "c" >>, << >>), " ", << " " >>))
  IN  Trim(CollapseRuns(weightKey, "-", << " " >>))

parseFontStyle(styleName) ==
  IF styleName = <<>> THEN [fontStyle |-> << "n", "o", "r", "m", "a", "l" >>, fontWeight |-> << "4", "0", "0" >>]
  ELSE
    LET lower         == toLowerCase(styleName)
        isItalic      == Includes(lower, << "i", "t", "a", "l", "i", "c" >>)
        normalizedKey == normalizedKeyOf(styleName)
        fuzzyKey      == fuzzyKeyOf(normalizedKey)
        fontWeight ==
          IF Has(weightMap, normalizedKey) THEN Get(weightMap, normalizedKey)
          ELSE IF normalizedKey = <<>> THEN << "4", "0", "0" >>
          ELSE IF Len(fuzzyKey) = 1 THEN Get(weightMap, fuzzyKey[1])
          ELSE IF Len(ThreeDigits(normalizedKey)) = 1 THEN ThreeDigits(normalizedKey)[1]
          ELSE << "4", "0", "0" >>
    IN  [ fontStyle  |-> IF isItalic THEN << "i", "t", "a", "l", "i", "c" >> ELSE << "n", "o", "r", "m", "a", "l" >>,
          fontWeight |-> fontWeight ]

\* fontName: [family, style]; fontSize: None or Some(number);
\* fallback: [fontFamily, fontWeight, fontStyle, fontSize]; "" (<< >>) when absent
deriveFontParts(fontName, fontSize, fallback) ==
  LET resolvedFamily ==
        IF fontName.family # <<>> THEN fontName.family ELSE fallback.fontFamily
      parts == SelectSeq(<< Trim(fallback.fontStyle), Trim(fallback.fontWeight) >>,
                         LAMBDA v : v # <<>>)
      styleDescriptor ==
        IF fontName.style # <<>> THEN fontName.style ELSE Trim(Join(parts, << " " >>))
      parsedStyle == parseFontStyle(styleDescriptor)
      resolvedFontSize == IF Len(fontSize) = 1 THEN fontSize ELSE fallback.fontSize
  IN  [ fontStyle     |-> parsedStyle.fontStyle,
        fontWeight    |-> parsedStyle.fontWeight,
        fontFamily    |-> IF resolvedFamily # <<>>
                            THEN Cat(<< << "\"" >>, resolvedFamily, << "\"", ",", " ", "s", "a", "n", "s", "-", "s", "e", "r", "i", "f" >> >>)
                            ELSE << "s", "a", "n", "s", "-", "s", "e", "r", "i", "f" >>,
        fontSizeValue |-> IF Len(resolvedFontSize) = 1
                            THEN NatToStr(resolvedFontSize[1]) \o << "p", "x" >>
                            ELSE << "1", "6", "p", "x" >> ]

\* /^[1-9]00$/
IsHundreds(s) == Len(s) = 3 /\ IsDigit(s[1]) /\ s[1] # "0" /\ s[2] = "0" /\ s[3] = "0"

\* `var(${variable.property})`
VarOf(variable) == Cat(<< << "v", "a", "r", "(" >>, variable.property, << ")" >> >>)

\* variant: a reference the table does not resolve yields the text "undefined"
valueFromPossibleVariableWithoutFallback(item, fallback, variablesLookup) ==
  IF item.isObject
    THEN IF Has(variablesLookup, item.id)
           THEN VarOf(Get(variablesLookup, item.id))
           ELSE << "u", "n", "d", "e", "f", "i", "n", "e", "d" >>
  ELSE IF IsHundreds(item.s)
    THEN LET hit == { i \in DOMAIN variablesLookup :
                        /\ variablesLookup[i][2].value.isString
                        /\ variablesLookup[i][2].value.s = item.s }
         IN  IF hit = {} THEN item.s ELSE VarOf(variablesLookup[Min(hit)][2])
  ELSE IF item.s # <<>> THEN item.s ELSE fallback

\* item: a bound-variable reference [isObject |-> TRUE, id], or a plain string
\* [isObject |-> FALSE, s]; variablesLookup: the Variable Lookup Table
valueFromPossibleVariable(item, fallback, variablesLookup) ==
  IF item.isObject
    THEN IF Has(variablesLookup, item.id)
           THEN VarOf(Get(variablesLookup, item.id))
           ELSE fallback
  ELSE IF IsHundreds(item.s)
    THEN LET hit == { i \in DOMAIN variablesLookup :
                        /\ variablesLookup[i][2].value.isString
                        /\ variablesLookup[i][2].value.s = item.s }
         IN  IF hit = {} THEN item.s ELSE VarOf(variablesLookup[Min(hit)][2])
  ELSE IF item.s # <<>> THEN item.s ELSE fallback

\* boundVariables.f ? valueFromPossibleVariable(boundVariables.f, literal) : literal
\* boundVariables: a function from sub-property names to items
Component(boundVariables, f, literal, variablesLookup) ==
  IF f \in DOMAIN boundVariables /\ (boundVariables[f].isObject \/ boundVariables[f].s # <<>>)
    THEN valueFromPossibleVariable(boundVariables[f], literal, variablesLookup)
    ELSE literal

RECURSIVE StripLeadingNonAlnum(_)
\* name.replace(/^[^a-zA-Z0-9]+/, "")
StripLeadingNonAlnum(s) ==
  IF s # <<>> /\ ~IsAlnum(s[1]) THEN StripLeadingNonAlnum(Tail(s)) ELSE s

RECURSIVE HyphenateNonAlnum(_)
\* s.replace(/[^a-zA-Z0-9]+/g, "-")
HyphenateNonAlnum(s) ==
  IF s = <<>> THEN s
  ELSE IF IsAlnum(s[1]) THEN << s[1] >> \o HyphenateNonAlnum(Tail(s))
  ELSE IF Len(s) > 1 /\ ~IsAlnum(s[2]) THEN HyphenateNonAlnum(Tail(s))
  ELSE << "-" >> \o HyphenateNonAlnum(Tail(s))

\* name.replace(/[^a-zA-Z0-9 ]/g, " ").trim().replace(/ +/g, "-").toLowerCase()
sanitizeName(name) ==
  toLowerCase(CollapseRuns(
    Trim([i \in DOMAIN name |-> IF IsAlnum(name[i]) \/ name[i] = " " THEN name[i] ELSE " "]),
    " ", << "-" >>))

\* the parts of a TEXT record that deriveFontParts computes
TextParts(style) ==
  deriveFontParts(style.fontName, style.fontSize,
                  [ fontFamily |-> style.fontFamily, fontWeight |-> style.fontWeight,
                    fontStyle  |-> IF Len(style.fontStyle) = 1 THEN style.fontStyle[1]
                                                                ELSE << "n", "o", "r", "m", "a", "l" >>,
                    fontSize   |-> style.fontSize ])

\* the four components of the css array of a TEXT record (lines 511-536)
TextComponents(style, variablesLookup) ==
  LET d == TextParts(style)
  IN  << Component(style.boundVariables, "fontStyle", d.fontStyle, variablesLookup),
         Component(style.boundVariables, "fontWeight", d.fontWeight, variablesLookup),
         Component(style.boundVariables, "fontSize", d.fontSizeValue, variablesLookup),
         Component(style.boundVariables, "fontFamily", d.fontFamily, variablesLookup) >>

\* the line a TEXT record pushes to text (lines 537-542)
TextLine(style, variablesLookup) ==
  Cat(<< << "-", "-" >>, TOKEN_PREFIX, << "f", "o", "n", "t", "-" >>,
         toLowerCase(HyphenateNonAlnum(StripLeadingNonAlnum(style.name))),
         << ":", " " >>, Join(TextComponents(style, variablesLookup), << " " >>), << ";" >> >>)

\* `${n}px` for an integer n
Px(n) == (IF n < 0 THEN << "-" >> \o NatToStr(0 - n) ELSE NatToStr(n)) \o << "p", "x" >>

\* the components of a shadow (lines 638-654)
ShadowComponents(effect, variablesLookup) ==
  << Component(effect.boundVariables, "offsetX", Px(effect.offset.x), variablesLookup),
     Component(effect.boundVariables, "offsetY", Px(effect.offset.y), variablesLookup),
     Component(effect.boundVariables, "radius", Px(effect.radius), variablesLookup),
     Component(effect.boundVariables, "spread", Px(effect.spread), variablesLookup),
     Component(effect.boundVariables, "color", effect.hex, variablesLookup) >>

\* effect: [type, visible, radius, offset, spread, hex, boundVariables]
formatEffect(effect, variablesLookup) ==
  IF effect.type \in {"DROP_SHADOW", "INNER_SHADOW"}
    THEN (IF effect.type = "INNER_SHADOW" THEN << "i", "n", "s", "e", "t", " " >> ELSE << >>)
         \o Join(ShadowComponents(effect, variablesLookup), << " " >>)
    ELSE Cat(<< << "b", "l", "u", "r", "(" >>,
                Component(effect.boundVariables, "radius", Px(effect.radius), variablesLookup),
                << ")" >> >>)

\* the formatted visible effects whose type matches one of kinds
Formatted(effects, kinds, variablesLookup) ==
  LET keep == SelectSeq(effects, LAMBDA e : e.visible /\ e.type \in kinds)
  IN  [i \in DOMAIN keep |-> formatEffect(keep[i], variablesLookup)]

\* the lines an EFFECT record pushes to effectDefs (lines 544-576)
EffectLines(style, variablesLookup) ==
  LET safeName        == sanitizeName(style.name)
      shadows         == Formatted(style.effects, {"DROP_SHADOW", "INNER_SHADOW"}, variablesLookup)
      filters         == Formatted(style.effects, {"LAYER_BLUR"}, variablesLookup)
      backdropFilters == Formatted(style.effects, {"BACKGROUND_BLUR"}, variablesLookup)
  IN  (IF shadows # <<>>
         THEN << Cat(<< << "-", "-" >>, TOKEN_PREFIX, << "e", "f", "f", "e", "c", "t", "s", "-", "s", "h", "a", "d", "o", "w", "s", "-" >>, safeName, << ":", " " >>,
                        Join(shadows, << ",", " " >>), << ";" >> >>) >>
         ELSE << >>)
      \o (IF filters # <<>>
            THEN << Cat(<< << "-", "-" >>, TOKEN_PREFIX, << "e", "f", "f", "e", "c", "t", "s", "-", "f", "i", "l", "t", "e", "r", "-" >>, safeName, << ":", " " >>,
                           filters[1], << ";" >> >>) >>
            ELSE << >>)
      \o (IF backdropFilters # <<>>
            THEN << Cat(<< << "-", "-" >>, TOKEN_PREFIX, << "e", "f", "f", "e", "c", "t", "s", "-", "b", "a", "c", "k", "d", "r", "o", "p", "-", "f", "i", "l", "t", "e", "r", "-" >>, safeName, << ":", " " >>,
                           backdropFilters[1], << ";" >> >>) >>
            ELSE << >>)

\* the lines processStyleJSON returns for the style document styleData
processStyleJSON(styleData, variablesLookup) ==
  LET texts   == SelectSeq(styleData, LAMBDA r : r.type = "TEXT")
      effects == SelectSeq(styleData, LAMBDA r : r.type = "EFFECT")
      text       == [i \in DOMAIN texts |-> TextLine(texts[i], variablesLookup)]
      effectDefs == Cat([i \in DOMAIN effects |-> EffectLines(effects[i], variablesLookup)])
  IN  << << "/", "*", " ", "s", "t", "y", "l", "e", "s", " ", "*", "/" >>, << ":", "r", "o", "o", "t", " ", "{" >>, << " ", " " >> \o Join(text \o effectDefs, << "\n", " ", " " >>), << "}" >> >>

----------------------------------------------------------------------------
(* Bounds of the input sets                                                *)

\* longest path from a collection root to a leaf
MaxDepth == 2

\* most words in a font style descriptor
MaxWords == 3

----------------------------------------------------------------------------
(* Token documents                                                         *)

\* a leaf of the token tree: an object with $value
Leaf(value, type, extensions) ==
  [ hasValue |-> TRUE, value |-> value, type |-> type, description |-> "",
    extensions |-> extensions, children |-> << >> ]

\* a container of the token tree: an object without $value
Group(type, children) ==
  [ hasValue |-> FALSE, value |-> Str(<< >>), type |-> type, description |-> "",
    extensions |-> None, children |-> children ]

\* $extensions carrying data under the default namespace
Ext(figmaId, modes) == Some(("com.figma.wds" :> [figmaId |-> figmaId, modes |-> modes]))

\* $extensions carrying data under a namespace the script does not read
ForeignExt(figmaId, modes) == Some(("org.other" :> [figmaId |-> figmaId, modes |-> modes]))

\* the text of an alias to the token at path of the collection definitionsKey
AliasTo(definitionsKey, path) ==
  Cat(<< << "{" >>, definitionsKey, << "." >>, Join(path, << "." >>), << "}" >> >>)

KEYS == << << "a" >>, << "B" >>, << "a", "-", "B" >> >>

TYPE_NAMES == << "color", "number", "string", "dimension" >>

PathsOfLength(n) == [1..n -> Range(KEYS)]

SpinePaths == UNION { PathsOfLength(n) : n \in 1..MaxDepth }

PRIMARY_KINDS ==
  {"plain", "typed", "numeric", "decimal", "numericModes", "modes", "noModes", "emptyModes", "foreign"}

SECONDARY_KINDS == {"plain", "modesDark", "aliasModes", "aliasNoModes"}

PrimaryLeaf(kind) ==
  CASE kind = "plain"      -> Leaf(Str(<< "#", "F", "F", "F" >>), "", None)
    [] kind = "typed"      -> Leaf(Str(<< "#", "F", "F", "F" >>), "boolean", None)
    [] kind = "numeric"    -> Leaf(Num(<< "2", "4" >>), "", None)
    [] kind = "decimal"    -> Leaf(Num(<< "1", ".", "5" >>), "number", None)
    [] kind = "numericModes" -> Leaf(Num(<< "1", "6" >>), "number", Ext("V1", Some(<< << << "l", "i", "g", "h", "t" >>, Num(<< "1", "6" >>) >>,
                                                                       << << "d", "a", "r", "k" >>, Num(<< "1", "6" >>) >>,
                                                                       << << "c", "o", "m", "p", "a", "c", "t" >>, Str(<< "-", "8" >>) >> >>)))
    [] kind = "modes"      -> Leaf(Str(<< "#", "F", "F", "F" >>), "", Ext("V1", Some(<< << << "l", "i", "g", "h", "t" >>, Str(<< "#", "F", "F", "F" >>) >>,
                                                                      << << "d", "a", "r", "k" >>, Str(<< "#", "0", "0", "0" >>) >> >>)))
    [] kind = "noModes"    -> Leaf(Str(<< "#", "A", "B", "C" >>), "boolean", Ext("V1", None))
    [] kind = "emptyModes" -> Leaf(Str(<< "#", "F", "F", "F" >>), "", Ext("V1", Some(<< >>)))
    [] kind = "foreign"    -> Leaf(Str(<< "#", "F", "F", "F" >>), "", ForeignExt("V1", Some(<< << << "l", "i", "g", "h", "t" >>, Str(<< "#", "F", "F", "F" >>) >> >>)))

\* a second leaf; the alias kinds refer to the primary leaf at path target
SecondaryLeaf(kind, definitionsKey, target) ==
  CASE kind = "plain"        -> Leaf(Str(<< "#", "1", "1", "1" >>), "", None)
    [] kind = "modesDark"    -> Leaf(Str(<< "#", "1", "1", "1" >>), "", Ext("V2", Some(<< << << "d", "a", "r", "k" >>, Str(<< "#", "1", "1", "1" >>) >> >>)))
    [] kind = "aliasModes"   -> Leaf(Str(<< "#", "1", "1", "1" >>), "", Ext("V2", Some(<< << << "l", "i", "g", "h", "t" >>, Str(AliasTo(definitionsKey, target)) >> >>)))
    [] kind = "aliasNoModes" -> Leaf(Str(AliasTo(definitionsKey, target)), "", None)

\* the placements of the second leaf: none, or at depth level under key
SecondaryChoices(path) ==
  { [kind |-> "none", level |-> 0, key |-> << >>] }
  \cup { c \in { [kind |-> k, level |-> j, key |-> key] :
                     k \in SECONDARY_KINDS, j \in DOMAIN path, key \in Range(KEYS) } :
           c.key # path[c.level] }

RECURSIVE BuildTree(_, _, _, _, _, _)
\* the tree with the primary leaf at path, whose container at depth j declares
\* TYPE_NAMES[j + 1] when typed[j + 1], and with the second leaf sec beside the spine
BuildTree(path, j, typed, primary, sec, definitionsKey) ==
  IF j = Len(path) THEN PrimaryLeaf(primary)
  ELSE Group(
         IF typed[j + 1] THEN TYPE_NAMES[(j % Len(TYPE_NAMES)) + 1] ELSE "",
         << << path[j + 1], BuildTree(path, j + 1, typed, primary, sec, definitionsKey) >> >>
         \o (IF sec.kind # "none" /\ sec.level = j + 1
               THEN << << sec.key, SecondaryLeaf(sec.kind, definitionsKey, path) >> >>
               ELSE << >>))

\* the token document holding, under the collection key, the tree BuildTree builds
TraverseDoc(key, path, typed, primary, sec) ==
  << << definitionsKeyOf(key),
        BuildTree(path, 0, typed, primary, sec, definitionsKeyOf(key)) >> >>

\* the "color" entry of COLLECTION_DATA (lines 30-47)
ColorSettings ==
  [ prefix                 |-> << "c", "o", "l", "o", "r" >>,
    convertPixelToRem      |-> None,
    replacements           |-> Some(<< << << "c", "o", "l", "o", "r", "_", "p", "r", "i", "m", "i", "t", "i", "v", "e", "s" >>, << "c", "o", "l", "o", "r" >> >>,
                                       << << "@", "n", "e", "w", "_", "c", "o", "l", "o", "r", "_", "p", "r", "i", "m", "i", "t", "i", "v", "e", "s" >>, << "w", "d", "s", "-", "n", "e", "w", "-", "c", "o", "l", "o", "r" >> >>,
                                       << << "@", "n", "e", "w", "_", "c", "o", "l", "o", "r" >>, << "w", "d", "s", "-", "n", "e", "w", "-", "c", "o", "l", "o", "r" >> >> >>),
    colorSchemes           |-> Some(<< << "w", "d", "s", "_", "l", "i", "g", "h", "t" >> >>),
    colorSchemesDark       |-> Some(<< << "w", "d", "s", "_", "d", "a", "r", "k" >> >>),
    colorSchemeLightRemove |-> Some(<< "_", "l", "i", "g", "h", "t" >>),
    colorSchemeDarkRemove  |-> Some(<< "_", "d", "a", "r", "k" >>) ]

\* the "color_primitives" entry of COLLECTION_DATA (lines 24-26)
PrimitivesSettings ==
  [ prefix                 |-> << "c", "o", "l", "o", "r" >>,
    convertPixelToRem      |-> None,
    replacements           |-> None,
    colorSchemes           |-> None,
    colorSchemesDark       |-> None,
    colorSchemeLightRemove |-> None,
    colorSchemeDarkRemove  |-> None ]

\* the "size" entry of COLLECTION_DATA (lines 48-56)
SizeSettings ==
  [ prefix                 |-> << "s", "i", "z", "e" >>,
    convertPixelToRem      |-> Some(TRUE),
    replacements           |-> Some(<< << KEY_PREFIX_COLLECTION \o << "r", "e", "s", "p", "o", "n", "s", "i", "v", "e" >>, << "r", "e", "s", "p", "o", "n", "s", "i", "v", "e" >> >> >>),
    colorSchemes           |-> None,
    colorSchemesDark       |-> None,
    colorSchemeLightRemove |-> None,
    colorSchemeDarkRemove  |-> None ]

Entry(settings) == [settings |-> settings, definitions |-> None]

\* the collections the traversal is explored on: one configured collection
TraverseConfigs ==
  { << << << "c", "o", "l", "o", "r" >>, Entry(ColorSettings) >> >> }

\* the scheme lists the emitter is explored on
SchemeChoices ==
  { [light |-> << << "w", "d", "s", "_", "l", "i", "g", "h", "t" >> >>, dark |-> Some(<< << "w", "d", "s", "_", "d", "a", "r", "k" >> >>)],
    [light |-> << << "a", "_", "l", "i", "g", "h", "t" >>, << "b", "_", "l", "i", "g", "h", "t" >> >>, dark |-> None],
    [light |-> << << "a", "_", "l", "i", "g", "h", "t" >>, << "b", "_", "l", "i", "g", "h", "t" >> >>, dark |-> Some(<< << "a", "_", "d", "a", "r", "k" >>, << "b", "_", "d", "a", "r", "k" >> >>)] }

\* COLLECTION_DATA with the scheme lists of the "color" entry varied
PipelineConfigs ==
  { << << << "c", "o", "l", "o", "r", "_", "p", "r", "i", "m", "i", "t", "i", "v", "e", "s" >>, Entry(PrimitivesSettings) >>,
       << << "c", "o", "l", "o", "r" >>, Entry([ColorSettings EXCEPT !.colorSchemes = Some(c.light),
                                               !.colorSchemesDark = c.dark]) >>,
       << << "s", "i", "z", "e" >>, Entry(SizeSettings) >> >> :
      c \in SchemeChoices }

ModeLeaf(figmaId, modes) == Leaf(Str(<< "#", "F", "F", "F" >>), "", Ext(figmaId, Some(modes)))

\* trees of the collection without scheme lists
PrimitivesTrees ==
  { Group("color", << << << "a" >>, Leaf(Str(<< "#", "F", "F", "F" >>), "", None) >>,
                      << << "b" >>, Leaf(Num(<< "1", "6" >>), "number", Ext("V4", None)) >> >>),
    Group("", << << << "a" >>, Leaf(Str(<< "#", "F", "F", "F" >>), "", None) >>,
                 << << "m" >>, ModeLeaf("V5", << << << "m", "o", "b", "i", "l", "e" >>, Num(<< "8" >>) >>,
                                         << << "1" >>, Num(<< "1", "6" >>) >>,
                                         << << "d", "e", "s", "k", "t", "o", "p" >>, Num(<< "2", "4" >>) >> >>) >> >>),
    Group("", << << << "a" >>, Group("", << << << "b" >>, Leaf(Str(<< "#", "1", "1", "1" >>), "", None) >> >>) >>,
                 << << "a", "-", "b" >>, Leaf(Str(<< "#", "2", "2", "2" >>), "", None) >> >>),
    Group("", << >>) }

\* trees of the collection with scheme lists
ColorTrees ==
  { Group("color",
      << << << "x" >>, ModeLeaf("V1", << << << "a", "_", "l", "i", "g", "h", "t" >>, Str(<< "#", "F", "F", "F" >>) >>, << << "b", "_", "l", "i", "g", "h", "t" >>, Str(<< "#", "E", "E", "E" >>) >>,
                                   << << "a", "_", "d", "a", "r", "k" >>, Str(<< "#", "0", "0", "0" >>) >>, << << "b", "_", "d", "a", "r", "k" >>, Str(<< "#", "1", "1", "1" >>) >>,
                                   << << "w", "d", "s", "_", "l", "i", "g", "h", "t" >>, Str(<< "#", "F", "F", "E" >>) >>, << << "w", "d", "s", "_", "d", "a", "r", "k" >>, Str(<< "#", "0", "0", "1" >>) >> >>) >>,
         << << "k" >>, Group("", << << << "z" >>, ModeLeaf("V2",
                   << << << "a", "_", "l", "i", "g", "h", "t" >>, Str(AliasTo(definitionsKeyOf(<< "c", "o", "l", "o", "r", "_", "p", "r", "i", "m", "i", "t", "i", "v", "e", "s" >>), << << "a" >> >>)) >>,
                      << << "w", "d", "s", "_", "l", "i", "g", "h", "t" >>, Str(AliasTo(definitionsKeyOf(<< "c", "o", "l", "o", "r", "_", "p", "r", "i", "m", "i", "t", "i", "v", "e", "s" >>), << << "a" >> >>)) >> >>) >> >>) >> >>),
    Group("", << << << "B" >>, ModeLeaf("V3", << << << "b", "_", "l", "i", "g", "h", "t" >>, Str(<< "#", "E", "E", "E" >>) >>,
                                         << << "a", "_", "l", "i", "g", "h", "t" >>, Str(<< "#", "F", "F", "F" >>) >> >>) >> >>) }

\* trees of a collection COLLECTION_DATA does not list
ExtraTrees == { Group("", << << << "k" >>, Leaf(Num(<< "4" >>), "", None) >> >>) }

OptionalEntry(definitionsKey, trees) ==
  { << >> } \cup { << << definitionsKey, tree >> >> : tree \in trees }

PipelineDocs ==
  { p \o c \o x :
      p \in OptionalEntry(definitionsKeyOf(<< "c", "o", "l", "o", "r", "_", "p", "r", "i", "m", "i", "t", "i", "v", "e", "s" >>), PrimitivesTrees),
      c \in OptionalEntry(definitionsKeyOf(<< "c", "o", "l", "o", "r" >>), ColorTrees),
      x \in OptionalEntry(definitionsKeyOf(<< "e", "x", "t", "r", "a" >>), ExtraTrees) }

----------------------------------------------------------------------------
(* Style documents                                                         *)

Ref(id) == [isObject |-> TRUE, id |-> id]

Plain(s) == [isObject |-> FALSE, s |-> s]

\* the identifiers style records refer to; "V9" names no token
REF_IDS == {"V1", "V4", "V9"}

NoBinding == [f \in {} |-> Ref("V9")]

TEXT_FIELDS == {"fontStyle", "fontWeight", "fontSize", "fontFamily"}

SHADOW_FIELDS == {"offsetX", "offsetY", "radius", "spread", "color"}

\* boundVariables objects: empty, one sub-property bound to a reference,
\* every sub-property bound to a reference, or (text) the weight given as a string
Bindings(fields) ==
  { NoBinding }
  \cup { (f :> Ref(id)) : f \in fields, id \in REF_IDS }
  \cup { [f \in fields |-> Ref(id)] : id \in REF_IDS }

TextRecords ==
  { [ type |-> "TEXT", name |-> << "B", "o", "d", "y", "/", "L", "a", "r", "g", "e" >>, fontSize |-> Some(16),
      fontFamily |-> << >>, fontWeight |-> << >>, fontStyle |-> None,
      fontName |-> [family |-> << "I", "n", "t", "e", "r" >>, style |-> st], boundVariables |-> bv ] :
      st \in { << "S", "e", "m", "i", " ", "B", "o", "l", "d", " ", "I", "t", "a", "l", "i", "c" >>, << "R", "e", "g", "u", "l", "a", "r" >> },
      bv \in Bindings(TEXT_FIELDS) \cup { ("fontWeight" :> Plain(<< "7", "0", "0" >>)) } }
  \cup
  { [ type |-> "TEXT", name |-> << "_", "h", "1" >>, fontSize |-> None,
      fontFamily |-> << "I", "n", "t", "e", "r" >>, fontWeight |-> << "7", "0", "0" >>, fontStyle |-> None,
      fontName |-> [family |-> << >>, style |-> << >>], boundVariables |-> NoBinding ] }

Effect(type, visible, boundVariables) ==
  [ type |-> type, visible |-> visible, radius |-> 8, offset |-> [x |-> 2, y |-> 4],
    spread |-> 0, hex |-> << "#", "0", "0", "0", "0", "0", "0", "f", "f" >>, boundVariables |-> boundVariables ]

EffectRecords ==
  { [ type |-> "EFFECT", name |-> << "S", "h", "a", "d", "o", "w", "/", "1", "0", "0" >>, effects |-> << Effect(ty, TRUE, bv) >> ] :
      ty \in {"DROP_SHADOW", "INNER_SHADOW"}, bv \in Bindings(SHADOW_FIELDS) }
  \cup
  { [ type |-> "EFFECT", name |-> << "B", "l", "u", "r" >>, effects |-> << Effect(ty, TRUE, bv) >> ] :
      ty \in {"LAYER_BLUR", "BACKGROUND_BLUR"}, bv \in Bindings({"radius"}) }
  \cup
  { [ type |-> "EFFECT", name |-> << "M", "i", "x", "e", "d" >>,
      effects |-> << Effect("DROP_SHADOW", FALSE, NoBinding),
                     Effect("INNER_SHADOW", TRUE, ("color" :> Ref("V9"))),
                     Effect("LAYER_BLUR", TRUE, NoBinding),
                     Effect("LAYER_BLUR", TRUE, ("radius" :> Ref("V1"))) >> ],
    [ type |-> "PAINT", name |-> << "F", "i", "l", "l" >>, effects |-> << >> ] }

StyleRecords == TextRecords \cup EffectRecords

\* style documents: empty, one record, or a text, an effect and an ignored record
StyleDocs ==
  { << >> }
  \cup { << r >> : r \in StyleRecords }
  \cup { << t, e, [type |-> "PAINT", name |-> << "F" >>, effects |-> << >>] >> :
           t \in { r \in TextRecords : r.boundVariables = NoBinding },
           e \in { r \in EffectRecords : Len(r.effects) > 1 } }

\* font style descriptors: up to MaxWords words
WORDS == { << "E", "x", "t", "r", "a" >>, << "S", "e", "m", "i" >>, << "B", "o", "l", "d" >>, << "L", "i", "g", "h", "t" >>, << "I", "t", "a", "l", "i", "c" >>, << "C", "o", "n", "d", "e", "n", "s", "e", "d" >>, << "7", "5", "0" >>, << "D", "e", "m", "i", "-", "B", "o", "l", "d" >> }

RECURSIVE Descriptors(_)
Descriptors(n) ==
  IF n = 0 THEN { << >> }
  ELSE Descriptors(n - 1)
       \cup { IF d = <<>> THEN w ELSE d \o << " " >> \o w : d \in Descriptors(n - 1), w \in WORDS }

----------------------------------------------------------------------------
(* The run: initialize() -> processTokenJSON -> lookup table -> processStyleJSON *)

VARIABLES
  pc,                  \* position of the run
  COLLECTION_DATA,     \* the module-level collection object (entries key -> [settings, definitions])
  data,                \* the parsed token document
  processed,           \* keys of the shallow copy `processed`
  loopKeys,            \* keys the running for-in loop has still to visit
  traversed,           \* the definitionsKey of every processCollection call, in order
  fileStringCSSLines,  \* the lines of theme.css built so far
  variableLookups,     \* the Variable Lookup Table
  styleData,           \* the parsed style document
  output,              \* the lines written to theme.css
  styleName,           \* argument of parseFontStyle
  parsed               \* result of parseFontStyle

vars ==
  << pc, COLLECTION_DATA, data, processed, loopKeys, traversed, fileStringCSSLines,
     variableLookups, styleData, output, styleName, parsed >>

Blank ==
  /\ data = << >>
  /\ processed = << >>
  /\ loopKeys = << >>
  /\ traversed = << >>
  /\ fileStringCSSLines = << >>
  /\ variableLookups = << >>
  /\ styleData = << >>
  /\ output = << >>
  /\ styleName = << >>
  /\ parsed = << >>

Init ==
  /\ pc = "start"
  /\ COLLECTION_DATA \in PipelineConfigs
  /\ Blank

InitTraverse ==
  /\ pc = "start"
  /\ COLLECTION_DATA \in TraverseConfigs
  /\ Blank

InitFont ==
  /\ pc = "font"
  /\ COLLECTION_DATA = << >>
  /\ Blank

\* initialize reads tokens.json (the document d) and calls processTokenJSON, which
\* first runs ensureCollectionSettingsExist and copies the keys of COLLECTION_DATA
ProcessTokenJSON(d) ==
  /\ pc = "start"
  /\ data' = d
  /\ COLLECTION_DATA' = ensureCollectionSettingsExist(COLLECTION_DATA, d)
  /\ processed' = Keys(COLLECTION_DATA')
  /\ loopKeys' = Keys(COLLECTION_DATA')
  /\ pc' = "collections"
  /\ UNCHANGED << traversed, fileStringCSSLines, variableLookups, styleData, output,
                  styleName, parsed >>

\* the run on a document of several collections
ReadTokens ==
  /\ pc = "start"
  /\ \E d \in PipelineDocs : ProcessTokenJSON(d)

\* the run on a document without collections
ReadEmptyTokens == ProcessTokenJSON(<< >>)

\* the run on a document of one collection, its tree drawn from the bounded trees
ReadTokenTree ==
  /\ pc = "start"
  /\ \E path \in SpinePaths :
       \E typed \in [1..Len(path) -> BOOLEAN], primary \in PRIMARY_KINDS,
          sec \in SecondaryChoices(path) :
         ProcessTokenJSON(TraverseDoc(COLLECTION_DATA[1][1], path, typed, primary, sec))

\* variant: every key is deleted
DeleteKeyAll(keys, key) == << >>

\* delete processed[key]
DeleteKey(keys, key) == SelectSeq(keys, LAMBDA k : k # key)

\* one iteration of the loop of lines 142-150 on a collection the document lacks
SkipCollection ==
  /\ pc = "collections"
  /\ loopKeys # << >>
  /\ ~Has(data, definitionsKeyOf(Head(loopKeys)))
  /\ processed' = DeleteKey(processed, Head(loopKeys))
  /\ loopKeys' = Tail(loopKeys)
  /\ UNCHANGED << pc, COLLECTION_DATA, data, traversed, fileStringCSSLines,
                  variableLookups, styleData, output, styleName, parsed >>

\* one iteration of the loop of lines 142-150 on a collection of the document
ProcessCollection ==
  /\ pc = "collections"
  /\ loopKeys # << >>
  /\ Has(data, definitionsKeyOf(Head(loopKeys)))
  /\ LET key            == Head(loopKeys)
         definitionsKey == definitionsKeyOf(key)
         entry          == Get(COLLECTION_DATA, key)
     IN  /\ COLLECTION_DATA' =
              Put(COLLECTION_DATA, key,
                  [entry EXCEPT !.definitions =
                     Some(processCollection(data, entry.settings, definitionsKey))])
         /\ traversed' = Append(traversed, definitionsKey)
  /\ loopKeys' = Tail(loopKeys)
  /\ UNCHANGED << pc, data, processed, fileStringCSSLines, variableLookups, styleData,
                  output, styleName, parsed >>

\* lines 153-158: the header, and the start of the loop over processed
BeginEmit ==
  /\ pc = "collections"
  /\ loopKeys = << >>
  /\ fileStringCSSLines' = FILE_HEADER
  /\ loopKeys' = processed
  /\ pc' = "emit"
  /\ UNCHANGED << COLLECTION_DATA, data, processed, traversed, variableLookups,
                  styleData, output, styleName, parsed >>

\* one iteration of the loop of lines 158-162; drawCSSPropLines sorts in place
EmitCollection ==
  /\ pc = "emit"
  /\ loopKeys # << >>
  /\ LET key   == Head(loopKeys)
         entry == Get(COLLECTION_DATA, key)
     IN  \E sorted \in SortOutcomes(entry.definitions[1],
                                    DrawnModes(entry.definitions[1], entry.settings)) :
           /\ COLLECTION_DATA' =
                Put(COLLECTION_DATA, key, [entry EXCEPT !.definitions = Some(sorted)])
           /\ fileStringCSSLines' =
                fileStringCSSLines
                \o fileStringCSSFromProcessedObject(sorted, entry.settings, key)
  /\ loopKeys' = Tail(loopKeys)
  /\ UNCHANGED << pc, data, processed, traversed, variableLookups, styleData, output,
                  styleName, parsed >>

\* drawVariableSyntaxAndDescription reads linesObject[Object.keys(linesObject)[0]]:
\* undefined for a definitions object without modes, and lines.map then throws
SnippetThrows ==
  \E i \in DOMAIN processed : Get(COLLECTION_DATA, processed[i]).definitions[1] = << >>

\* lines 220-233 throw a TypeError outside the try block: the run ends
SnippetError ==
  /\ pc = "emit"
  /\ loopKeys = << >>
  /\ SnippetThrows
  /\ pc' = "failed"
  /\ UNCHANGED << COLLECTION_DATA, data, processed, loopKeys, traversed,
                  fileStringCSSLines, variableLookups, styleData, output, styleName, parsed >>

\* lines 220-248: the snippet is written (or its write fails and is logged),
\* and processTokenJSON returns
ReturnThemeCSS ==
  /\ pc = "emit"
  /\ loopKeys = << >>
  /\ ~SnippetThrows
  /\ pc' = "lookups"
  /\ UNCHANGED << COLLECTION_DATA, data, processed, loopKeys, traversed,
                  fileStringCSSLines, variableLookups, styleData, output, styleName, parsed >>

\* lines 109-118
BuildVariableLookups ==
  /\ pc = "lookups"
  /\ variableLookups' = buildVariableLookups(COLLECTION_DATA, processed)
  /\ pc' = "styles"
  /\ UNCHANGED << COLLECTION_DATA, data, processed, loopKeys, traversed,
                  fileStringCSSLines, styleData, output, styleName, parsed >>

\* lines 121-131: styles.json is read and processed, theme.css is written
ProcessStyleJSON ==
  /\ pc = "styles"
  /\ \E s \in StyleDocs :
       /\ styleData' = s
       /\ output' = fileStringCSSLines \o processStyleJSON(s, variableLookups)
  /\ pc' = "done"
  /\ UNCHANGED << COLLECTION_DATA, data, processed, loopKeys, traversed,
                  fileStringCSSLines, variableLookups, styleName, parsed >>

\* parseFontStyle applied to a descriptor
ParseFontStyle ==
  /\ pc = "font"
  /\ \E d \in Descriptors(MaxWords) :
       /\ styleName' = d
       /\ parsed' = parseFontStyle(d)
  /\ pc' = "parsed"
  /\ UNCHANGED << COLLECTION_DATA, data, processed, loopKeys, traversed,
                  fileStringCSSLines, variableLookups, styleData, output >>

Next ==
  \/ ReadTokens
  \/ SkipCollection
  \/ ProcessCollection
  \/ BeginEmit
  \/ EmitCollection
  \/ SnippetError
  \/ ReturnThemeCSS
  \/ BuildVariableLookups
  \/ ProcessStyleJSON

Spec == Init /\ [][Next]_vars

NextTraverse ==
  \/ ReadTokenTree
  \/ ReadEmptyTokens
  \/ SkipCollection
  \/ ProcessCollection

SpecTraverse == InitTraverse /\ [][NextTraverse]_vars

NextFont == ParseFontStyle

SpecFont == InitFont /\ [][NextFont]_vars

----------------------------------------------------------------------------
(* What the claims speak of, read off the token document itself            *)

Max(S) == CHOOSE x \in S : \A y \in S : x >= y

\* the number of elements of the array L that satisfy P
Count(L, P(_)) == Cardinality({ i \in DOMAIN L : P(L[i]) })

\* the configured collections whose tree has been traversed
TraversedKeys ==
  { k \in Range(InsertionKeys(COLLECTION_DATA)) :
      /\ Len(Get(COLLECTION_DATA, k).definitions) = 1
      /\ Has(data, definitionsKeyOf(k)) }

TreeOf(k) == Get(data, definitionsKeyOf(k))

DefinitionsOf(k) == Get(COLLECTION_DATA, k).definitions[1]

SettingsOf(k) == Get(COLLECTION_DATA, k).settings

RECURSIVE LeafPaths(_)
\* the key paths from node down to its leaf tokens
LeafPaths(node) ==
  IF node.hasValue THEN { << >> }
  ELSE UNION { { << node.children[i][1] >> \o p : p \in LeafPaths(node.children[i][2]) } :
               i \in { j \in DOMAIN node.children : ~StartsWith(node.children[j][1], << "$" >>) } }

RECURSIVE NodeAt(_, _)
NodeAt(node, path) ==
  IF path = << >> THEN node ELSE NodeAt(Get(node.children, path[1]), Tail(path))

\* the per-mode data of a leaf: None when it has none the script reads
LeafModeData(leaf) ==
  LET d == IF Len(leaf.extensions) = 1 THEN getNamespaceData(leaf.extensions[1]) ELSE None
  IN  IF Len(d) = 1 /\ Len(d[1].modes) = 1 THEN Some(d[1].modes[1]) ELSE None

\* the modes a leaf has a value in
LeafModes(leaf) ==
  IF Len(LeafModeData(leaf)) = 1
    THEN Range(InsertionKeys(LeafModeData(leaf)[1]))
    ELSE { DEFAULT_MODE }

\* the raw value of a leaf in one of its modes
LeafRawValue(leaf, mode) ==
  IF Len(LeafModeData(leaf)) = 1 THEN Get(LeafModeData(leaf)[1], mode) ELSE leaf.value

\* every mode some leaf of the tree has a value in
TreeModes(tree) == UNION { LeafModes(NodeAt(tree, p)) : p \in LeafPaths(tree) }

\* the leaves of the tree that have a value in mode
PathsInMode(tree, mode) == { p \in LeafPaths(tree) : mode \in LeafModes(NodeAt(tree, p)) }

\* "--" followed by the hyphen-join of the full prefix and the path segments
ExpectedProperty(k, path) ==
  << "-", "-" >> \o Join(<< TOKEN_PREFIX \o SettingsOf(k).prefix >> \o path, << "-" >>)

\* the leaf's own type, else that of the nearest ancestor declaring one, else ""
ExpectedType(tree, path) ==
  LET declaring == { j \in 0..Len(path) : NodeAt(tree, SubSeq(path, 1, j)).type # "" }
  IN  IF declaring = {} THEN ""
      ELSE NodeAt(tree, SubSeq(path, 1, Max(declaring))).type

\* the converted value of the leaf at path in mode
ExpectedValue(k, path, mode) ==
  LET leaf == NodeAt(TreeOf(k), path)
  IN  valueWithReplacements(
        valueToCSS(ExpectedProperty(k, path), LeafRawValue(leaf, mode), definitionsKeyOf(k),
                   SettingsConvertPixelToRem(SettingsOf(k)),
                   IF Len(LeafModeData(leaf)) = 1 THEN fullPrefixOf(SettingsOf(k)) ELSE << >>),
        SettingsReplacements(SettingsOf(k)))

\* the array of mode in the definitions of collection k (empty when there is none)
ModeList(k, mode) == ModeLines(DefinitionsOf(k), mode)

\* every mode that has an array in the definitions of k
ListedModes(k) == Range(InsertionKeys(DefinitionsOf(k)))

----------------------------------------------------------------------------
(* C1: for every leaf token at any depth, the definitions appended for it  *)
(* carry property = "--" + hyphen-join of the full prefix and every path   *)
(* segment from the collection root down to the leaf key: in each mode     *)
(* array, each property text occurs exactly as often as there are leaves   *)
(* of that mode whose path joins to it.                                    *)
C1_PathToProperty ==
  \A k \in TraversedKeys :
    \A mode \in ListedModes(k) \cup TreeModes(TreeOf(k)) :
      LET L        == ModeList(k, mode)
          paths    == PathsInMode(TreeOf(k), mode)
          expected == { ExpectedProperty(k, p) : p \in paths }
          found    == { L[i].property : i \in DOMAIN L }
      IN  \A q \in expected \cup found :
            Count(L, LAMBDA d : d.property = q)
              = Cardinality({ p \in paths : ExpectedProperty(k, p) = q })

\* a leaf nested two or more keys below the collection root has been given its property
C1_Witness ==
  \E k \in TraversedKeys :
    \E p \in LeafPaths(TreeOf(k)) :
      /\ Len(p) >= 2
      /\ \E mode \in LeafModes(NodeAt(TreeOf(k), p)) :
           \E i \in DOMAIN ModeList(k, mode) :
             ModeList(k, mode)[i].property = ExpectedProperty(k, p)

(* C2: the definitions hold exactly one record per (leaf, mode) pair: a    *)
(* mode has an array iff some leaf has a value in it, the array has one    *)
(* record per such leaf, each with the leaf's property and the converted   *)
(* value of that mode; a leaf without mode data appears once, under        *)
(* "default".                                                              *)
C2_OnePerLeafAndMode ==
  \A k \in TraversedKeys :
    /\ ListedModes(k) = TreeModes(TreeOf(k))
    /\ \A mode \in ListedModes(k) :
         LET L     == ModeList(k, mode)
             paths == PathsInMode(TreeOf(k), mode)
             want  == { << ExpectedProperty(k, p), ExpectedValue(k, p, mode) >> : p \in paths }
             got   == { << L[i].property, L[i].value >> : i \in DOMAIN L }
         IN  /\ Len(L) = Cardinality(paths)
             /\ \A r \in want \cup got :
                  Count(L, LAMBDA d : << d.property, d.value >> = r)
                    = Cardinality({ p \in paths :
                        << ExpectedProperty(k, p), ExpectedValue(k, p, mode) >> = r })
    /\ \A p \in LeafPaths(TreeOf(k)) :
         Len(LeafModeData(NodeAt(TreeOf(k), p))) = 0
           => Count(ModeList(k, DEFAULT_MODE),
                    LAMBDA d : d.property = ExpectedProperty(k, p)) >= 1

\* a leaf with two modes and a leaf without mode data have both been flattened
C2_Witness ==
  \E k \in TraversedKeys :
    /\ \E p \in LeafPaths(TreeOf(k)) :
         /\ Cardinality(LeafModes(NodeAt(TreeOf(k), p))) = 2
         /\ \A mode \in LeafModes(NodeAt(TreeOf(k), p)) : Len(ModeList(k, mode)) >= 1
    /\ \E p \in LeafPaths(TreeOf(k)) : Len(LeafModeData(NodeAt(TreeOf(k), p))) = 0
    /\ Len(ModeList(k, DEFAULT_MODE)) = 1

\* no two records of one mode array have the same property
UniqueProperties(k) ==
  \A mode \in ListedModes(k) :
    \A i, j \in DOMAIN ModeList(k, mode) :
      i # j => ModeList(k, mode)[i].property # ModeList(k, mode)[j].property

RECURSIVE TreeKeys(_)
\* every key of the tree that traverse descends into
TreeKeys(node) ==
  UNION { { node.children[i][1] } \cup TreeKeys(node.children[i][2]) :
          i \in { j \in DOMAIN node.children : ~StartsWith(node.children[j][1], << "$" >>) } }

(* C3 as stated: properties are unique within every mode array, also for   *)
(* trees whose keys contain hyphens.                                       *)
C3_UniqueAlways == \A k \in TraversedKeys : UniqueProperties(k)

(* C3 as amended: properties are unique within every mode array of a tree  *)
(* none of whose keys contains a hyphen.                                   *)
C3_UniqueWithoutHyphenKeys ==
  \A k \in TraversedKeys :
    (\A key \in TreeKeys(TreeOf(k)) : ~Includes(key, << "-" >>)) => UniqueProperties(k)

\* two leaves of a tree without hyphens in its keys share a mode array
C3_Witness ==
  \E k \in TraversedKeys :
    /\ \A key \in TreeKeys(TreeOf(k)) : ~Includes(key, << "-" >>)
    /\ \E mode \in ListedModes(k) : Len(ModeList(k, mode)) >= 2

(* C4: the type of every record is the leaf's own declared type, else the  *)
(* type of the nearest ancestor container declaring one, else empty: in    *)
(* each mode array, each (property, type) pair occurs exactly as often as  *)
(* there are leaves of that mode with that property and that expected type.*)
C4_TypeInheritance ==
  \A k \in TraversedKeys :
    \A mode \in ListedModes(k) \cup TreeModes(TreeOf(k)) :
      LET L     == ModeList(k, mode)
          paths == PathsInMode(TreeOf(k), mode)
          want  == { << ExpectedProperty(k, p), ExpectedType(TreeOf(k), p) >> : p \in paths }
          got   == { << L[i].property, L[i].type >> : i \in DOMAIN L }
      IN  \A r \in want \cup got :
            Count(L, LAMBDA d : << d.property, d.type >> = r)
              = Cardinality({ p \in paths :
                  << ExpectedProperty(k, p), ExpectedType(TreeOf(k), p) >> = r })

\* an untyped leaf under two typed containers got the nearer type, while a
\* leaf beside the nearer container did not
C4_Witness ==
  \E k \in TraversedKeys :
    \E p, q \in LeafPaths(TreeOf(k)) :
      /\ Len(p) = 2 /\ Len(q) = 1
      /\ NodeAt(TreeOf(k), p).type = "" /\ NodeAt(TreeOf(k), q).type = ""
      /\ TreeOf(k).type # ""
      /\ NodeAt(TreeOf(k), << p[1] >>).type \notin { "", TreeOf(k).type }
      /\ \E mode \in LeafModes(NodeAt(TreeOf(k), p)) :
           \E i \in DOMAIN ModeList(k, mode) :
             /\ ModeList(k, mode)[i].property = ExpectedProperty(k, p)
             /\ ModeList(k, mode)[i].type = NodeAt(TreeOf(k), << p[1] >>).type
      /\ \E mode \in LeafModes(NodeAt(TreeOf(k), q)) :
           \E i \in DOMAIN ModeList(k, mode) :
             /\ ModeList(k, mode)[i].property = ExpectedProperty(k, q)
             /\ ModeList(k, mode)[i].type = TreeOf(k).type

\* the leaf paths of collection k that the raw value names as an alias
AliasTargets(k, raw) ==
  { q \in LeafPaths(TreeOf(k)) : raw.isString /\ raw.s = AliasTo(definitionsKeyOf(k), q) }

(* C5: for every leaf whose raw value (in a mode, or its $value when it    *)
(* has no mode data) is an alias of a token of the collection, the value   *)
(* of its record is var(<P>) with <P> the property generated for the       *)
(* referenced token.                                                       *)
C5_AliasRoundTrip ==
  \A k \in TraversedKeys :
    \A p \in LeafPaths(TreeOf(k)) :
      \A mode \in LeafModes(NodeAt(TreeOf(k), p)) :
        \A q \in AliasTargets(k, LeafRawValue(NodeAt(TreeOf(k), p), mode)) :
          Count(ModeList(k, mode),
                LAMBDA d : /\ d.property = ExpectedProperty(k, p)
                           /\ d.value = Str(Cat(<< << "v", "a", "r", "(" >>, ExpectedProperty(k, q), << ")" >> >>)))
            >= 1

----------------------------------------------------------------------------
(* The emitted lines of one collection                                     *)

\* collection k has been through the loop of lines 158-162
Emitted(k) ==
  /\ pc \in {"emit", "failed", "lookups", "styles", "done"}
  /\ k \in Range(processed)
  /\ k \notin Range(loopKeys)

\* the first comment line of a block of collection k, at top level
IsBlockComment(line, k) == StartsWith(line, Cat(<< << "/", "*", " " >>, k, << ":", " " >> >>))

\* the lines of theme.css from the first block comment of collection k up to
\* the first block comment of another collection
CollectionLines(k) ==
  LET own   == { i \in DOMAIN fileStringCSSLines : IsBlockComment(fileStringCSSLines[i], k) }
      first == Min(own)
      other == { i \in DOMAIN fileStringCSSLines :
                   /\ i > first
                   /\ StartsWith(fileStringCSSLines[i], << "/", "*", " " >>)
                   /\ ~IsBlockComment(fileStringCSSLines[i], k) }
  IN  IF own = {} THEN << >>
      ELSE SubSeq(fileStringCSSLines, first,
                  IF other = {} THEN Len(fileStringCSSLines) ELSE Min(other) - 1)

\* the declarations of a mode, as its block holds them
Declarations(k, mode, indent) == drawCSSPropLines(ModeList(k, mode), indent)

\* the collections configured with the light schemes a_light, b_light and the
\* strip string _light
TwoLightSchemes(k) ==
  /\ SettingsOf(k).colorSchemes = Some(<< << "a", "_", "l", "i", "g", "h", "t" >>, << "b", "_", "l", "i", "g", "h", "t" >> >>)
  /\ SettingsOf(k).colorSchemeLightRemove = Some(<< "_", "l", "i", "g", "h", "t" >>)

\* the lines of collection k before its dark media block
LightLines(k) ==
  LET all   == CollectionLines(k)
      media == { i \in DOMAIN all : StartsWith(all[i], << "@", "m", "e", "d", "i", "a" >>) }
  IN  IF media = {} THEN all ELSE SubSeq(all, 1, Min(media) - 1)

\* the light lines of k are one :root block of a_light and then one class block
\* of b_light under the given selector
TwoLightBlocks(k, selector) ==
  LightLines(k) =
    << Cat(<< << "/", "*", " " >>, k, << ":", " ", "a", "_", "l", "i", "g", "h", "t", " ", "(", "d", "e", "f", "a", "u", "l", "t", ")", " ", "*", "/" >> >>),
       << ":", "r", "o", "o", "t", " ", "{" >>,
       Declarations(k, << "a", "_", "l", "i", "g", "h", "t" >>, << " ", " " >>),
       << "}" >>,
       Cat(<< << "/", "*", " " >>, k, << ":", " ", "b", "_", "l", "i", "g", "h", "t", " ", "*", "/" >> >>),
       selector,
       Declarations(k, << "b", "_", "l", "i", "g", "h", "t" >>, << " ", " " >>),
       << "}" >> >>

(* C6 as stated: with colorSchemes ["a_light", "b_light"] the lines hold    *)
(* one :root block with the a_light definitions and then one class block   *)
(* with the b_light definitions whose selector is                          *)
(* .{tokenPrefix}theme-<collection>-b.                                     *)
C6_ThemeSelector ==
  \A k \in Range(InsertionKeys(COLLECTION_DATA)) :
    Emitted(k) /\ TwoLightSchemes(k)
      => TwoLightBlocks(k, Cat(<< << "." >>, TOKEN_PREFIX, << "t", "h", "e", "m", "e", "-" >>, k, << "-", "b", " ", "{" >> >>))

(* C6 as amended: the selector of the class block is                       *)
(* .{tokenPrefix}scheme-<collection>-b; the rest as stated.                *)
C6_SchemeSelector ==
  \A k \in Range(InsertionKeys(COLLECTION_DATA)) :
    Emitted(k) /\ TwoLightSchemes(k)
      => TwoLightBlocks(k, Cat(<< << "." >>, TOKEN_PREFIX, << "s", "c", "h", "e", "m", "e", "-" >>, k, << "-", "b", " ", "{" >> >>))

\* a collection with the two light schemes has been emitted, each with definitions
C6_Witness ==
  \E k \in Range(InsertionKeys(COLLECTION_DATA)) :
    /\ Emitted(k) /\ TwoLightSchemes(k)
    /\ Len(ModeList(k, << "a", "_", "l", "i", "g", "h", "t" >>)) >= 1
    /\ Len(ModeList(k, << "b", "_", "l", "i", "g", "h", "t" >>)) >= 1

\* the position of key in the array keys
PositionIn(keys, key) == CHOOSE i \in DOMAIN keys : keys[i] = key

\* e lists the keys ins in the order a for-in loop visits them: integer-like
\* keys first, ascending, then the others in insertion order
IsEnumerationOrder(e, ins) ==
  /\ Len(e) = Len(ins) /\ Range(e) = Range(ins)
  /\ \A i, j \in DOMAIN e :
       i < j =>
         IF IsArrayIndex(e[j])
           THEN IsArrayIndex(e[i]) /\ StrToNat(e[i]) < StrToNat(e[j])
           ELSE IsArrayIndex(e[i]) \/ PositionIn(ins, e[i]) < PositionIn(ins, e[j])

\* the lines of k are one block per mode of order, the first a :root block and
\* each other a class block whose selector is selectorOf of its mode
OneBlockPerMode(k, order, selectorOf(_)) ==
  /\ Len(CollectionLines(k)) = 4 * Len(order)
  /\ \A j \in DOMAIN order :
       SubSeq(CollectionLines(k), 4 * j - 3, 4 * j) =
         << Cat(<< << "/", "*", " " >>, k, << ":", " " >>, order[j],
                   IF j = 1 THEN << " ", "(", "d", "e", "f", "a", "u", "l", "t", ")", " ", "*", "/" >> ELSE << " ", "*", "/" >> >>),
            IF j = 1 THEN << ":", "r", "o", "o", "t", " ", "{" >> ELSE selectorOf(order[j]),
            Declarations(k, order[j], << " ", " " >>),
            << "}" >> >>

NoSchemeConfig(k) == Len(SettingsOf(k).colorSchemes) = 0

(* C7 as stated: without color-scheme config the modes are emitted in      *)
(* insertion order, the first as the :root block and every other as one    *)
(* class block named theme-scope-<collectionKey>-<mode>.                   *)
C7_ThemeScopeInsertionOrder ==
  \A k \in Range(InsertionKeys(COLLECTION_DATA)) :
    Emitted(k) /\ NoSchemeConfig(k)
      => OneBlockPerMode(k, InsertionKeys(DefinitionsOf(k)),
                         LAMBDA m : Cat(<< << "." >>, TOKEN_PREFIX, << "t", "h", "e", "m", "e", "-", "s", "c", "o", "p", "e", "-" >>, k, << "-" >>, m, << " ", "{" >> >>))

(* C7 as amended: without color-scheme config the modes are emitted in the *)
(* enumeration order of the definitions object (insertion order, except    *)
(* that integer-like mode names come first, ascending), the first as the   *)
(* :root block and every other as one class block with selector            *)
(* .{tokenPrefix}theme-<collectionKey>-<mode>; every mode has exactly one  *)
(* block.                                                                  *)
C7_ThemeEnumerationOrder ==
  \A k \in Range(InsertionKeys(COLLECTION_DATA)) :
    Emitted(k) /\ NoSchemeConfig(k)
      => \E order \in Perms(InsertionKeys(DefinitionsOf(k))) :
           /\ IsEnumerationOrder(order, InsertionKeys(DefinitionsOf(k)))
           /\ OneBlockPerMode(k, order,
                LAMBDA m : Cat(<< << "." >>, TOKEN_PREFIX, << "t", "h", "e", "m", "e", "-" >>, k, << "-" >>, m, << " ", "{" >> >>))

\* a collection without scheme config and with three or more modes, one of
\* them integer-like and not inserted first, has been emitted
C7_Witness ==
  \E k \in Range(InsertionKeys(COLLECTION_DATA)) :
    /\ Emitted(k) /\ NoSchemeConfig(k)
    /\ Len(DefinitionsOf(k)) >= 3
    /\ \E i \in DOMAIN DefinitionsOf(k) : i > 1 /\ IsArrayIndex(DefinitionsOf(k)[i][1])

\* some line of theme.css belongs to a block of collection k
HasBlock(k) ==
  \E i \in DOMAIN fileStringCSSLines :
    \/ IsBlockComment(fileStringCSSLines[i], k)
    \/ StartsWith(fileStringCSSLines[i], Cat(<< << " ", " ", "/", "*", " " >>, k, << ":", " " >> >>))

(* C8: a configured collection whose key the document lacks is never       *)
(* passed to the traverser, gets no definitions, no entry in processed and *)
(* no block in the emitted lines, and the run never fails on its account   *)
(* (it fails only where a collection the document has yields no            *)
(* definitions); every configured collection the document has is           *)
(* traversed once, stays in processed and is emitted.                      *)
C8_UnknownCollectionSkip ==
  /\ \A k \in Range(InsertionKeys(COLLECTION_DATA)) :
       pc # "start" /\ ~Has(data, definitionsKeyOf(k)) =>
         /\ definitionsKeyOf(k) \notin Range(traversed)
         /\ Len(Get(COLLECTION_DATA, k).definitions) = 0
         /\ ~HasBlock(k)
         /\ (pc = "collections" /\ k \notin Range(loopKeys)) \/ pc # "collections"
              => k \notin Range(processed)
  /\ \A k \in Range(InsertionKeys(COLLECTION_DATA)) :
       pc # "start" /\ Has(data, definitionsKeyOf(k)) =>
         /\ k \in Range(processed)
         /\ (pc = "collections" /\ k \notin Range(loopKeys)) \/ pc # "collections"
              => Count(traversed, LAMBDA key : key = definitionsKeyOf(k)) = 1
         /\ Emitted(k) =>
              CollectionLines(k) =
                fileStringCSSFromProcessedObject(DefinitionsOf(k), SettingsOf(k), k)
  /\ pc = "failed" =>
       \E k \in Range(processed) : Has(data, definitionsKeyOf(k)) /\ DefinitionsOf(k) = << >>

\* the run has ended on a document that lacks one configured collection and
\* has another, which is in the emitted lines
C8_Witness ==
  /\ pc = "done"
  /\ \E k \in Range(InsertionKeys(COLLECTION_DATA)) : ~Has(data, definitionsKeyOf(k))
  /\ \E k \in Range(InsertionKeys(COLLECTION_DATA)) :
       Has(data, definitionsKeyOf(k)) /\ HasBlock(k)

----------------------------------------------------------------------------
(* Bound-variable references of style records                              *)

\* the sub-properties of boundVariables bound to a reference that the table resolves / does not resolve
ResolvedFields(bv) ==
  { f \in DOMAIN bv : bv[f].isObject /\ Has(variableLookups, bv[f].id) }

UnresolvedFields(bv) ==
  { f \in DOMAIN bv : bv[f].isObject /\ ~Has(variableLookups, bv[f].id) }

\* boundVariables without its unresolvable references
WithoutUnresolved(bv) == [f \in DOMAIN bv \ UnresolvedFields(bv) |-> bv[f]]

\* the style record with the unresolvable references of its boundVariables,
\* and of those of its effects, taken away
RecordWithoutUnresolved(r) ==
  IF r.type = "TEXT"
    THEN [r EXCEPT !.boundVariables = WithoutUnresolved(r.boundVariables)]
    ELSE [r EXCEPT !.effects =
            [i \in DOMAIN r.effects |->
               [r.effects[i] EXCEPT !.boundVariables =
                  WithoutUnresolved(r.effects[i].boundVariables)]]]

\* the lines of the styles block of theme.css
StyleLines == SubSeq(output, Len(fileStringCSSLines) + 1, Len(output))

TEXT_FIELD_ORDER == << "fontStyle", "fontWeight", "fontSize", "fontFamily" >>

SHADOW_FIELD_ORDER == << "offsetX", "offsetY", "radius", "spread", "color" >>

\* the text of a reference the table resolves
ResolvedText(item) == Cat(<< << "v", "a", "r", "(" >>, Get(variableLookups, item.id).property, << ")" >> >>)

(* C9: a sub-property whose bound-variable reference names no key of the   *)
(* Variable Lookup Table is emitted exactly as if no reference were bound  *)
(* (the whole styles block equals that of the document with these          *)
(* references removed) and the run ends normally; a reference that names a *)
(* key is emitted as var(<property of the looked-up definition>).          *)
C9_UnresolvedFallsBack ==
  pc = "done" =>
    /\ Len(StyleLines) = 4
    /\ StyleLines =
         processStyleJSON([i \in DOMAIN styleData |-> RecordWithoutUnresolved(styleData[i])],
                          variableLookups)
    /\ \A i \in DOMAIN styleData :
         /\ styleData[i].type = "TEXT" =>
              \A n \in DOMAIN TEXT_FIELD_ORDER :
                TEXT_FIELD_ORDER[n] \in ResolvedFields(styleData[i].boundVariables) =>
                  /\ TextComponents(styleData[i], variableLookups)[n]
                       = ResolvedText(styleData[i].boundVariables[TEXT_FIELD_ORDER[n]])
                  /\ Includes(StyleLines[3],
                              ResolvedText(styleData[i].boundVariables[TEXT_FIELD_ORDER[n]]))
         /\ styleData[i].type = "EFFECT" =>
              \A e \in DOMAIN styleData[i].effects :
                LET effect == styleData[i].effects[e]
                IN  effect.visible /\ effect.type \in {"DROP_SHADOW", "INNER_SHADOW"} =>
                      \A n \in DOMAIN SHADOW_FIELD_ORDER :
                        SHADOW_FIELD_ORDER[n] \in ResolvedFields(effect.boundVariables) =>
                          /\ ShadowComponents(effect, variableLookups)[n]
                               = ResolvedText(effect.boundVariables[SHADOW_FIELD_ORDER[n]])
                          /\ Includes(StyleLines[3],
                                      ResolvedText(effect.boundVariables[SHADOW_FIELD_ORDER[n]]))

\* the run has ended on a style document with a reference the table resolves
\* and on one with a reference it does not resolve, each in a text record
C9_Witness ==
  /\ pc = "done"
  /\ variableLookups # << >>
  /\ \E i \in DOMAIN styleData :
       /\ styleData[i].type = "TEXT"
       /\ UnresolvedFields(styleData[i].boundVariables) # {}
       /\ ResolvedFields(styleData[i].boundVariables) = {}

----------------------------------------------------------------------------
(* Font style descriptors                                                  *)

\* the table names the normalized descriptor contains
ContainedNames(key) == { i \in DOMAIN weightMap : Includes(key, weightMap[i][1]) }

\* the contained table names that are not part of a longer contained one
FullNames(key) ==
  { i \in ContainedNames(key) :
      \A j \in ContainedNames(key) :
        j # i => ~Includes(weightMap[j][1], weightMap[i][1]) }

\* the weights the stated precedence allows for a descriptor
AllowedWeights(name) ==
  LET key == normalizedKeyOf(name)
  IN  IF Has(weightMap, key) THEN { Get(weightMap, key) }
      ELSE IF ContainedNames(key) # {} THEN { weightMap[i][2] : i \in FullNames(key) }
      ELSE IF Len(ThreeDigits(key)) = 1 THEN { ThreeDigits(key)[1] }
      ELSE { << "4", "0", "0" >> }

(* C10: fontStyle is "italic" iff the descriptor contains the italic       *)
(* keyword, else "normal"; fontWeight is the table weight of an exact name *)
(* match, otherwise the weight of a table name the words contain, a        *)
(* descriptor containing the full name of an entry (such as "extra bold")  *)
(* plus further words getting that entry's weight, otherwise an embedded   *)
(* 3-digit number, otherwise "400".                                        *)
C10_FontDescriptor ==
  pc = "parsed" =>
    /\ parsed.fontStyle =
         (IF Includes(toLowerCase(styleName), << "i", "t", "a", "l", "i", "c" >>) THEN << "i", "t", "a", "l", "i", "c" >> ELSE << "n", "o", "r", "m", "a", "l" >>)
    /\ parsed.fontWeight \in AllowedWeights(styleName)

----------------------------------------------------------------------------
(* Dimension conversion                                                    *)

\* the decimal text of r / 10^digits, r an integer, without trailing zeros
ScaledText(r, digits) ==
  LET a    == IF r < 0 THEN 0 - r ELSE r
      f    == NatToStr(a % Pow10(digits))
      frac == StripTrailingZeros([i \in 1..(digits - Len(f)) |-> "0"] \o f)
  IN  (IF r < 0 THEN << "-" >> ELSE << >>)
      \o NatToStr(a \div Pow10(digits))
      \o (IF frac = << >> THEN << >> ELSE << "." >> \o frac)

\* the decimal text of s / 16, s a decimal literal with optional leading minus
SixteenthOf(s) ==
  LET neg == s[1] = "-"
      u   == IF neg THEN Tail(s) ELSE s
      dot == IndexOf(u, << "." >>)
      ip  == IF dot = 0 THEN u ELSE SubSeq(u, 1, dot - 1)
      fp  == IF dot = 0 THEN << >> ELSE SubSeq(u, dot + 1, Len(u))
      mag == (StrToNat(ip) * Pow10(Len(fp)) + StrToNat(fp)) * 625
  IN  ScaledText(IF neg THEN 0 - mag ELSE mag, 4 + Len(fp))

\* the raw value is purely numeric and the property denotes no weight or ratio
IsDimension(property, raw) ==
  /\ valueIsDigits(raw.s)
  /\ ~Includes(property, << "w", "e", "i", "g", "h", "t" >>)
  /\ ~Includes(property, << "r", "a", "t", "i", "o", "-" >>)

(* C11: the record of every leaf whose raw value is purely numeric, on a   *)
(* property that denotes no weight or ratio, has the value value/16 with   *)
(* unit rem when rem-conversion is enabled (16 -> 1rem, 1.5 -> 0.09375rem) *)
(* and the raw number with unit px when it is disabled; the same raw value *)
(* in two modes of a leaf gives the same value.                            *)
C11_DimensionConversion ==
  \A k \in TraversedKeys :
    \A p \in LeafPaths(TreeOf(k)) :
      \A mode \in LeafModes(NodeAt(TreeOf(k), p)) :
        LET raw == LeafRawValue(NodeAt(TreeOf(k), p), mode)
        IN  IsDimension(ExpectedProperty(k, p), raw) =>
              \E i \in DOMAIN ModeList(k, mode) :
                /\ ModeList(k, mode)[i].property = ExpectedProperty(k, p)
                /\ ModeList(k, mode)[i].value =
                     Str(IF SettingsConvertPixelToRem(SettingsOf(k))
                           THEN SixteenthOf(raw.s) \o << "r", "e", "m" >>
                           ELSE raw.s \o << "p", "x" >>)

----------------------------------------------------------------------------
(* Light and dark scheme blocks                                            *)

\* the four lines of the block of scheme number i of a scheme list: its comment,
\* its selector (:root for the first entry, else the class named after the
\* scheme with the strip string removed), its declarations and its closing
\* brace, each behind the indentation indent
SchemeBlock(k, schemes, i, remove, indent) ==
  << Cat(<< indent, << "/", "*", " " >>, k, << ":", " " >>, schemes[i],
            IF i = 1 THEN << " ", "(", "d", "e", "f", "a", "u", "l", "t", ")", " ", "*", "/" >> ELSE << " ", "*", "/" >> >>),
     IF i = 1
       THEN indent \o << ":", "r", "o", "o", "t", " ", "{" >>
       ELSE Cat(<< indent, << "." >>, TOKEN_PREFIX, << "s", "c", "h", "e", "m", "e", "-" >>, k, << "-" >>,
                   ReplaceFirst(schemes[i], remove, << >>), << " ", "{" >> >>),
     Declarations(k, schemes[i], indent \o << " ", " " >>),
     indent \o << "}" >> >>

BothSchemeLists(k) ==
  /\ Len(SettingsOf(k).colorSchemes) = 1
  /\ Len(SettingsOf(k).colorSchemesDark) = 1
  /\ Len(SettingsOf(k).colorSchemeLightRemove) = 1
  /\ Len(SettingsOf(k).colorSchemeDarkRemove) = 1

MEDIA_DARK == << "@", "m", "e", "d", "i", "a", " ", "(", "p", "r", "e", "f", "e", "r", "s", "-", "c", "o", "l", "o", "r", "-", "s", "c", "h", "e", "m", "e", ":", " ", "d", "a", "r", "k", ")", " ", "{" >>

(* C12: with a light and a dark scheme list the lines of the collection    *)
(* are the light blocks in list order (:root for the first entry, a class  *)
(* block for each other), then one prefers-color-scheme: dark media line,  *)
(* then the dark blocks in list order (:root for the first entry, a class  *)
(* block named with the dark strip string removed for each other), then    *)
(* the closing brace of the media block; so exactly one media block, every *)
(* dark block inside it and every light block before it.                   *)
C12_LightThenDarkMedia ==
  \A k \in Range(InsertionKeys(COLLECTION_DATA)) :
    Emitted(k) /\ BothSchemeLists(k) =>
      LET light == SettingsOf(k).colorSchemes[1]
          dark  == SettingsOf(k).colorSchemesDark[1]
          lines == CollectionLines(k)
          open  == 4 * Len(light) + 1
      IN  /\ Len(lines) = 4 * Len(light) + 4 * Len(dark) + 2
          /\ \A i \in DOMAIN light :
               SubSeq(lines, 4 * i - 3, 4 * i) =
                 SchemeBlock(k, light, i, SettingsOf(k).colorSchemeLightRemove[1], << >>)
          /\ lines[open] = MEDIA_DARK
          /\ \A j \in DOMAIN dark :
               SubSeq(lines, open + 4 * j - 3, open + 4 * j) =
                 SchemeBlock(k, dark, j, SettingsOf(k).colorSchemeDarkRemove[1], << " ", " " >>)
          /\ lines[Len(lines)] = << "}" >>
          /\ Count(lines, LAMBDA l : StartsWith(l, << "@", "m", "e", "d", "i", "a" >>)) = 1

\* a collection with two light and two dark schemes, each with definitions,
\* has been emitted
C12_Witness ==
  \E k \in Range(InsertionKeys(COLLECTION_DATA)) :
    /\ Emitted(k) /\ BothSchemeLists(k)
    /\ Len(SettingsOf(k).colorSchemes[1]) >= 2
    /\ Len(SettingsOf(k).colorSchemesDark[1]) >= 2
    /\ \A s \in Range(SettingsOf(k).colorSchemesDark[1]) : Len(ModeList(k, s)) >= 1
    /\ \A s \in Range(SettingsOf(k).colorSchemes[1]) : Len(ModeList(k, s)) >= 1

----------------------------------------------------------------------------
(* Declarations of a block                                                 *)

\* the declarations "<indent><property>: <value>;" of the records e, one per
\* line; no text when there is no record
Rendering(e, indent) ==
  Join([i \in DOMAIN e |-> Cat(<< indent, e[i].property, << ":", " " >>, e[i].value.s, << ";" >> >>)],
       << "\n" >>)

\* the records e are in ascending order of property
Ascending(e) ==
  \A i, j \in DOMAIN e : i < j => ~StrGreater(e[i].property, e[j].property)

\* text holds the records of the list defs, each once, in ascending order
IsSortedRendering(text, defs, indent) ==
  \E e \in Perms(defs) : Ascending(e) /\ text = Rendering(e, indent)

\* line is the comment that opens the block of mode in collection k
IsCommentOf(line, k, mode, indent) ==
  \/ line = Cat(<< indent, << "/", "*", " " >>, k, << ":", " " >>, mode, << " ", "(", "d", "e", "f", "a", "u", "l", "t", ")", " ", "*", "/" >> >>)
  \/ line = Cat(<< indent, << "/", "*", " " >>, k, << ":", " " >>, mode, << " ", "*", "/" >> >>)

\* the modes a block of collection k can be about
BlockModes(k) ==
  ListedModes(k)
  \cup (IF Len(SettingsOf(k).colorSchemes) = 1
          THEN Range(SettingsOf(k).colorSchemes[1]) ELSE {})
  \cup (IF Len(SettingsOf(k).colorSchemesDark) = 1
          THEN Range(SettingsOf(k).colorSchemesDark[1]) ELSE {})

(* C13: in every emitted block the declarations are exactly the Flat       *)
(* Definitions of the block's mode, each once as "<property>: <value>;" on *)
(* a line of its own, in ascending order of property; the block of a mode  *)
(* without definitions holds no declaration text.                          *)
C13_SortedDeclarations ==
  \A k \in Range(InsertionKeys(COLLECTION_DATA)) :
    Emitted(k) =>
      \A i \in DOMAIN CollectionLines(k) :
        \A mode \in BlockModes(k), indent \in { << >>, << " ", " " >> } :
          IsCommentOf(CollectionLines(k)[i], k, mode, indent) =>
            IsSortedRendering(CollectionLines(k)[i + 2], ModeList(k, mode),
                              indent \o << " ", " " >>)

----------------------------------------------------------------------------
(* Variable Lookup Table                                                   *)

\* the lookup table has been built
LookupsBuilt == pc \in {"styles", "done"}

\* the stable identifiers of the records of collection k
IdsOf(k) ==
  UNION { { d.figmaId : d \in Range(DefinitionsOf(k)[m][2]) } : m \in DOMAIN DefinitionsOf(k) }
  \ { "UNDEFINED" }

\* the records with identifier id in the list of mode number n of the modes
RecordsIn(k, modes, n, id) ==
  { d \in Range(Get(DefinitionsOf(k), modes[n])) : d.figmaId = id }

\* the records with identifier id in the first mode, in the order the modes
\* of collection k are visited, that has one
FirstModeRecords(k, id) ==
  LET modes == Keys(DefinitionsOf(k))
      with  == { n \in DOMAIN modes : RecordsIn(k, modes, n, id) # {} }
  IN  RecordsIn(k, modes, Min(with), id)

(* C14: once built, the Variable Lookup Table maps each stable identifier  *)
(* to the Flat Definition of the first mode of its collection: for a token *)
(* with definitions in several modes the entry is the first mode's         *)
(* definition, and those of later modes never replace it.                  *)
C14_FirstModeEntry ==
  LookupsBuilt =>
    \A k \in Range(processed) :
      \A id \in IdsOf(k) :
        /\ Has(variableLookups, id)
        /\ Get(variableLookups, id) \in FirstModeRecords(k, id)

----------------------------------------------------------------------------
(* The Token Collection Config during a run                                *)

ConfiguredKeys == Range(InsertionKeys(COLLECTION_DATA))

\* the names of the collections of the token document: its keys, the marker
\* taken off
DocumentCollections(doc) ==
  { SubSeq(key, Len(KEY_PREFIX_COLLECTION) + 1, Len(key)) :
      key \in { dk \in Range(InsertionKeys(doc)) :
                  StartsWith(dk, KEY_PREFIX_COLLECTION) /\ Len(dk) > Len(KEY_PREFIX_COLLECTION) } }

\* the settings given to a collection that is not configured
FallbackSettings(name) ==
  [ prefix                 |-> [i \in DOMAIN name |-> IF name[i] = "_" THEN "-" ELSE name[i]],
    convertPixelToRem      |-> Some(TRUE),
    replacements           |-> None,
    colorSchemes           |-> None,
    colorSchemesDark       |-> None,
    colorSchemeLightRemove |-> None,
    colorSchemeDarkRemove  |-> None ]

(* C15 as stated: no step changes the set of configured collections or the *)
(* settings of one, and a collection of the token document that is not     *)
(* configured is never traversed.                                          *)
C15_ConfigImmutable ==
  [][ /\ InsertionKeys(COLLECTION_DATA') = InsertionKeys(COLLECTION_DATA)
      /\ \A k \in ConfiguredKeys :
           Get(COLLECTION_DATA', k).settings = Get(COLLECTION_DATA, k).settings
      /\ \A key \in Range(traversed') :
           \E k \in ConfiguredKeys : key = definitionsKeyOf(k) ]_vars

\* a step keeps every configured collection and its settings, and adds
\* collections only when the document is read: one for each collection of the
\* document that is not configured, with the fallback settings
ConfigOnlyGrows ==
  /\ \A k \in ConfiguredKeys :
       /\ Has(COLLECTION_DATA', k)
       /\ Get(COLLECTION_DATA', k).settings = Get(COLLECTION_DATA, k).settings
  /\ \A k \in Range(InsertionKeys(COLLECTION_DATA')) \ ConfiguredKeys :
       /\ pc = "start"
       /\ k \in DocumentCollections(data')
       /\ Get(COLLECTION_DATA', k).settings = FallbackSettings(k)
  /\ pc = "start" => DocumentCollections(data') \subseteq Range(InsertionKeys(COLLECTION_DATA'))

\* after the loops every collection of the document has been traversed, is in
\* processed and, if it has definitions, has a block in the lines
DocumentCollectionsProcessed ==
  pc \in {"lookups", "styles", "done"} =>
    \A k \in DocumentCollections(data) :
      /\ k \in ConfiguredKeys
      /\ k \in Range(processed)
      /\ definitionsKeyOf(k) \in Range(traversed)
      /\ DefinitionsOf(k) # << >> => HasBlock(k)

(* C15 as amended: processing never removes a configured collection and    *)
(* never changes the settings of one; ensureCollectionSettingsExist adds a *)
(* record with fallback settings (prefix: the name with "_" replaced by    *)
(* "-", convertPixelToRem: true) for every collection of the token         *)
(* document that is not configured, and such a collection is then          *)
(* processed and emitted like a configured one.                            *)
C15_ConfigOnlyGrows == [][ConfigOnlyGrows]_vars /\ []DocumentCollectionsProcessed

\* the run has ended on a document with a collection that the source does not
\* configure, which has got fallback settings and a block in the lines
C15_Witness ==
  /\ pc = "done"
  /\ \E k \in DocumentCollections(data) :
       /\ SettingsOf(k) = FallbackSettings(k)
       /\ SettingsOf(k).prefix # << >>
       /\ HasBlock(k)

====
